---- MODULE Spec2Model ----
(***************************************************************************)
(* QAST: query string -> tokens -> AST -> validator / backend compilers.    *)
(*                                                                         *)
(* Every stage of the library is a pure synchronous function.  Each        *)
(* specification below draws the inputs of one stage from a bounded set    *)
(* in its initial predicate and applies the stage in its actions, storing  *)
(* what the call returned or raised in `result`.                           *)
(*                                                                         *)
(*   Spec          Parser.parse over token streams                         *)
(*   SpecValidate  validateQuery over ASTs and whitelists                  *)
(*   SpecCompile   the backend compilers over ASTs                         *)
(***************************************************************************)
EXTENDS Integers, Sequences, FiniteSets, TLC

VARIABLES
    tokens,     \* Parser.tokens: the token stream handed to the parser
    ast,        \* the QastNode the call works on (NoAst before a parse)
    whitelist,  \* the WhitelistOptions handed to validateQuery
    pc,         \* which call has been made
    result,     \* the error the last call raised (NoError on a normal return)
    filter,     \* the filter a backend compiler returned (NoFilter before)
    options,    \* the ParseOptions handed to parseQuery (NoOptions when omitted)
    calls,      \* the toSqlFilter / toDrizzleFilter calls made so far, with outcomes
    operators,  \* the operator table handed to a finalizer (NoOperators before)
    finalized,  \* the filter a finalizer returned (NoFilter before)
    query,      \* Tokenizer.input: the query, a sequence of characters
    charPosition \* Tokenizer.position: the offset of the next character to read

vars == <<tokens, ast, whitelist, pc, result, filter, options, calls, operators,
          finalized, query, charPosition>>

NoQuery == <<>>

NoCalls == <<>>
NoOperators == [given |-> FALSE, entries |-> {}]

(***************************************************************************)
(* Values (types/ast.ts).  A QastPrimitive is a tagged scalar; a QastValue  *)
(* is a primitive or an array of primitives.  Array.isArray(v) is          *)
(* v.isArray; a primitive is carried as the single element of `items`.     *)
(***************************************************************************)
Num(n) == [t |-> "number", v |-> n]
Str(n) == [t |-> "string", v |-> n]
Null == [t |-> "null", v |-> 0]

Prim(s) == [isArray |-> FALSE, items |-> <<s>>]
List(xs) == [isArray |-> TRUE, items |-> xs]

isNull(s) == s.t = "null"

(***************************************************************************)
(* AST nodes (types/ast.ts): a tagged union on `type`.                      *)
(***************************************************************************)
Operators ==
    {"eq", "ne", "gt", "lt", "gte", "lte", "in", "notIn",
     "contains", "startsWith", "endsWith", "between"}

ComparisonNode(f, o, v) == [type |-> "COMPARISON", field |-> f, op |-> o, value |-> v]
LogicalNode(k, l, r) == [type |-> k, left |-> l, right |-> r]
NotNode(c) == [type |-> "NOT", child |-> c]
NoAst == [type |-> "NONE"]
NoFilter == <<>>

isComparisonNode(node) == node.type = "COMPARISON"
isLogicalNode(node) == node.type = "AND" \/ node.type = "OR"
isNotNode(node) == node.type = "NOT"

\* The comparisons of a tree, as a set.
RECURSIVE ComparisonsOf(_)
ComparisonsOf(node) ==
    IF isComparisonNode(node) THEN {node}
    ELSE IF isLogicalNode(node) THEN ComparisonsOf(node.left) \cup ComparisonsOf(node.right)
    ELSE IF isNotNode(node) THEN ComparisonsOf(node.child)
    ELSE {}

\* The comparisons of a tree in left-to-right order.
RECURSIVE LeavesOf(_)
LeavesOf(node) ==
    IF isComparisonNode(node) THEN <<node>>
    ELSE IF isLogicalNode(node) THEN LeavesOf(node.left) \o LeavesOf(node.right)
    ELSE IF isNotNode(node) THEN LeavesOf(node.child)
    ELSE <<>>

RECURSIVE NodeCount(_)
NodeCount(node) ==
    IF isComparisonNode(node) THEN 1
    ELSE IF isLogicalNode(node) THEN NodeCount(node.left) + NodeCount(node.right) + 1
    ELSE IF isNotNode(node) THEN NodeCount(node.child) + 1
    ELSE 0

RECURSIVE HasNot(_)
HasNot(node) ==
    IF isLogicalNode(node) THEN HasNot(node.left) \/ HasNot(node.right)
    ELSE isNotNode(node)

(***************************************************************************)
(* Every tree the grammar can yield is a tree over comparisons, AND, OR    *)
(* and NOT (parentheses reach any shape).  TreesOfSize(L, n, neg) is the   *)
(* set of trees of exactly n nodes over the leaves L, with NOT nodes only  *)
(* when neg.                                                               *)
(***************************************************************************)
RECURSIVE TreesOfSize(_, _, _)
TreesOfSize(L, n, neg) ==
    IF n <= 0 THEN {}
    ELSE IF n = 1 THEN L
    ELSE (IF neg THEN {NotNode(c) : c \in TreesOfSize(L, n - 1, neg)} ELSE {})
         \cup UNION {
                {LogicalNode(k, l, r) :
                    k \in {"AND", "OR"},
                    l \in TreesOfSize(L, i, neg),
                    r \in TreesOfSize(L, n - 1 - i, neg)}
                : i \in 1..(n - 2)}

TreesUpTo(L, n, neg) == UNION {TreesOfSize(L, i, neg) : i \in 1..n}

(***************************************************************************)
(* WhitelistOptions (types/ast.ts).  An optional list is [given, list]:    *)
(* given is FALSE when the option is undefined; `list.includes(x)` is      *)
(* membership and `list.length` the cardinality.                           *)
(***************************************************************************)
Absent == [given |-> FALSE, list |-> {}]
Given(S) == [given |-> TRUE, list |-> S]

\* fieldTypes is [given, map], map being the FieldTypeMap: a function from
\* field names to FieldTypeDefinitions.  An optional property of a definition
\* that is left out is FALSE (allowNull, acceptsArrays), the empty set
\* (enumValues) or NoValidator; a supplied validator is a predicate that
\* returns the same answer for every value.
NoFieldTypes == [given |-> FALSE, map |-> <<>>]
FieldTypeMap(m) == [given |-> TRUE, map |-> m]
NoValidator == [given |-> FALSE, returns |-> TRUE]
Validator_(b) == [given |-> TRUE, returns |-> b]
FieldTypeDefinition(type, allowNull, acceptsArrays, enumValues, validator) ==
    [type |-> type, allowNull |-> allowNull, acceptsArrays |-> acceptsArrays,
     enumValues |-> enumValues, validator |-> validator]

TypedWhitelistOptions(F, O, T) ==
    [allowedFields |-> F, allowedOperators |-> O, fieldTypes |-> T]
WhitelistOptions(F, O) == TypedWhitelistOptions(F, O, NoFieldTypes)

(***************************************************************************)
(* ParseOptions (types/ast.ts).  An optional scalar is [given, value].     *)
(* The inputs leave fieldTypes undefined.                                  *)
(***************************************************************************)
Omitted == [given |-> FALSE, value |-> 0]
Limit(n) == [given |-> TRUE, value |-> n]
ValidateOmitted == [given |-> FALSE, value |-> TRUE]
ValidateFlag(b) == [given |-> TRUE, value |-> b]

ParseOptions(F, O, v, d, n, c) ==
    [given |-> TRUE, allowedFields |-> F, allowedOperators |-> O, fieldTypes |-> Absent,
     validate |-> v, maxDepth |-> d, maxNodes |-> n, maxClauses |-> c]

\* parseQuery(query) with the second argument left out.
NoOptions ==
    [given |-> FALSE, allowedFields |-> Absent, allowedOperators |-> Absent,
     fieldTypes |-> Absent, validate |-> ValidateOmitted,
     maxDepth |-> Omitted, maxNodes |-> Omitted, maxClauses |-> Omitted]

(***************************************************************************)
(* Errors (errors.ts).  A raised error is a record naming its class and    *)
(* the fields its constructor sets; NoError is a normal return.            *)
(***************************************************************************)
NoError == [name |-> "none"]
ValidationError(msg, f, o) ==
    [name |-> "ValidationError", message |-> msg, field |-> f, operator |-> o]
ParseError(msg, position) == [name |-> "ParseError", message |-> msg, position |-> position]
CompileError(msg) == [name |-> "Error", message |-> msg]

(***************************************************************************)
(* Tokens (parser/tokenizer.ts).  A token is [type, value, position];      *)
(* tokenize() always ends the stream with one EOF token.  A token stream   *)
(* is built here from the tokens' kinds, each token taking the next        *)
(* offset.                                                                 *)
(***************************************************************************)
Kind(type, value) == [type |-> type, value |-> value]

IDENT(f) == Kind("IDENTIFIER", f)
OPER(o) == Kind("OPERATOR", o)
VAL(v) == Kind("VALUE", v)
LOGICAL_AND == Kind("LOGICAL_OP", "and")
LOGICAL_OR == Kind("LOGICAL_OP", "or")
LOGICAL_NOT == Kind("LOGICAL_OP", "not")
PAREN_OPEN == Kind("PAREN_OPEN", "(")
PAREN_CLOSE == Kind("PAREN_CLOSE", ")")

TokenStream(ks) ==
    [i \in 1..(Len(ks) + 1) |->
        IF i <= Len(ks)
        THEN [type |-> ks[i].type, value |-> ks[i].value, position |-> i - 1]
        ELSE [type |-> "EOF", value |-> "", position |-> Len(ks)]]

\* The kinds of a stream's tokens, EOF left out.
KindsOf(toks) ==
    [i \in 1..(Len(toks) - 1) |-> Kind(toks[i].type, toks[i].value)]

(***************************************************************************)
(* Parser (parser/parser.ts).  The parser's cursor (this.position) is      *)
(* threaded through the operators: each takes the stream and the cursor    *)
(* and returns the node with the cursor after it, or the error raised.     *)
(* Cursors count from 1.                                                   *)
(***************************************************************************)
Parsed(node, p) == [ok |-> TRUE, node |-> node, pos |-> p]
Raised(e) == [ok |-> FALSE, error |-> e]

\* this.currentToken after advance(): past the end it stays on the last token.
currentToken(toks, p) == toks[IF p <= Len(toks) THEN p ELSE Len(toks)]

check(toks, p, type) == currentToken(toks, p).type = type

checkLogical(toks, p, value) ==
    /\ currentToken(toks, p).type = "LOGICAL_OP"
    /\ currentToken(toks, p).value = value

Nullish(x) == IF isNull(x) THEN Null ELSE x

normalizeValue(op, value) ==
    IF op = "between"
    THEN List(<<Nullish(value.items[1]), Nullish(value.items[2])>>)
    ELSE value

\* parseFactor with the length test of `between` left out.
parseFactor_anyList(toks, p) ==
    IF ~check(toks, p, "IDENTIFIER")
    THEN Raised(ParseError("Expected field name (identifier)", -1))
    ELSE IF ~check(toks, p + 1, "OPERATOR")
    THEN Raised(ParseError("Expected operator", -1))
    ELSE IF ~check(toks, p + 2, "VALUE")
    THEN Raised(ParseError("Expected value", -1))
    ELSE LET field == currentToken(toks, p).value
             op == currentToken(toks, p + 1).value
             value == currentToken(toks, p + 2).value
         IN  IF (op = "in" \/ op = "notIn" \/ op = "between") /\ ~value.isArray
             THEN Raised(ParseError("Operator requires an array value", -1))
             ELSE Parsed(ComparisonNode(field, op, value), p + 3)

parseFactor(toks, p) ==
    IF ~check(toks, p, "IDENTIFIER")
    THEN Raised(ParseError("Expected field name (identifier)", -1))
    ELSE IF ~check(toks, p + 1, "OPERATOR")
    THEN Raised(ParseError("Expected operator", -1))
    ELSE IF ~check(toks, p + 2, "VALUE")
    THEN Raised(ParseError("Expected value", -1))
    ELSE LET field == currentToken(toks, p).value
             op == currentToken(toks, p + 1).value
             valueToken == currentToken(toks, p + 2)
             value == valueToken.value
         IN  IF (op = "in" \/ op = "notIn") /\ ~value.isArray
             THEN Raised(ParseError("Operator requires an array value", -1))
             ELSE IF op = "between" /\ (~value.isArray \/ Len(value.items) # 2)
             THEN Raised(ParseError("Operator 'between' requires an array with exactly two values",
                                    valueToken.position))
             ELSE Parsed(ComparisonNode(field, op, normalizeValue(op, value)), p + 3)

RECURSIVE parseOrExpression(_, _)
RECURSIVE parseOrLoop(_, _, _)
RECURSIVE parseAndExpression(_, _)
RECURSIVE parseAndLoop(_, _, _)
RECURSIVE parseNotExpression(_, _)
RECURSIVE parseTerm(_, _)

parseExpression(toks, p) == parseOrExpression(toks, p)

parseTerm(toks, p) ==
    IF check(toks, p, "PAREN_OPEN")
    THEN LET expr == parseExpression(toks, p + 1)
         IN  IF ~expr.ok THEN expr
             ELSE IF ~check(toks, expr.pos, "PAREN_CLOSE")
             THEN Raised(ParseError("Expected closing parenthesis )", -1))
             ELSE Parsed(expr.node, expr.pos + 1)
    ELSE parseFactor(toks, p)

\* parseNotExpression negating the whole and-chain that follows.
parseNotExpression_greedy(toks, p) ==
    IF checkLogical(toks, p, "not")
    THEN LET child == parseAndExpression(toks, p + 1)
         IN  IF ~child.ok THEN child
             ELSE Parsed(NotNode(child.node), child.pos)
    ELSE parseTerm(toks, p)

parseNotExpression(toks, p) ==
    IF checkLogical(toks, p, "not")
    THEN LET child == parseNotExpression(toks, p + 1)
         IN  IF ~child.ok THEN child
             ELSE Parsed(NotNode(child.node), child.pos)
    ELSE parseTerm(toks, p)

\* The while loop of parseAndExpression, entered with the node built so far.
parseAndLoop(toks, node, p) ==
    IF checkLogical(toks, p, "and")
    THEN LET right == parseNotExpression(toks, p + 1)
         IN  IF ~right.ok THEN right
             ELSE parseAndLoop(toks, LogicalNode("AND", node, right.node), right.pos)
    ELSE Parsed(node, p)

parseAndExpression(toks, p) ==
    LET first == parseNotExpression(toks, p)
    IN  IF ~first.ok THEN first ELSE parseAndLoop(toks, first.node, first.pos)

\* The loop of parseOrExpression taking the whole rest as its right operand.
parseOrLoop_rightAssoc(toks, node, p) ==
    IF checkLogical(toks, p, "or")
    THEN LET right == parseOrExpression(toks, p + 1)
         IN  IF ~right.ok THEN right
             ELSE Parsed(LogicalNode("OR", node, right.node), right.pos)
    ELSE Parsed(node, p)

\* The while loop of parseOrExpression, entered with the node built so far.
parseOrLoop(toks, node, p) ==
    IF checkLogical(toks, p, "or")
    THEN LET right == parseAndExpression(toks, p + 1)
         IN  IF ~right.ok THEN right
             ELSE parseOrLoop(toks, LogicalNode("OR", node, right.node), right.pos)
    ELSE Parsed(node, p)

parseOrExpression(toks, p) ==
    LET first == parseAndExpression(toks, p)
    IN  IF ~first.ok THEN first ELSE parseOrLoop(toks, first.node, first.pos)

\* Parser.parse() without the end-of-input test.
parse_noEofTest(toks) ==
    IF Len(toks) = 1 /\ toks[1].type = "EOF"
    THEN Raised(ParseError("Empty query string", -1))
    ELSE parseExpression(toks, 1)

\* Parser.parse(): the whole stream, or a ParseError.
parse(toks) ==
    IF Len(toks) = 1 /\ toks[1].type = "EOF"
    THEN Raised(ParseError("Empty query string", -1))
    ELSE LET expr == parseExpression(toks, 1)
         IN  IF ~expr.ok THEN expr
             ELSE IF currentToken(toks, expr.pos).type # "EOF"
             THEN Raised(ParseError("Unexpected token. Expected end of query.", -1))
             ELSE expr

(***************************************************************************)
(* Spec: Parser.parse applied to token streams.                            *)
(*                                                                         *)
(* The streams are of three families:                                      *)
(*   - every expression of the grammar of at most MaxLexemes lexemes (a    *)
(*     comparison, a keyword or a parenthesis each count one) over two     *)
(*     comparisons;                                                        *)
(*   - every expression of at most MaxShapeLexemes lexemes over the        *)
(*     comparisons pairing eq, in, notIn and between with a scalar and     *)
(*     with lists of 0 to 3 elements;                                      *)
(*   - every sequence, well-formed or not, of at most MaxTokens tokens     *)
(*     over one identifier, one operator, one value, and/or/not and the    *)
(*     parentheses.                                                        *)
(***************************************************************************)
MaxLexemes == 7
MaxShapeLexemes == 3
MaxTokens == 5

Comparison(f, o, v) == <<IDENT(f), OPER(o), VAL(v)>>

RECURSIVE ExprsOfSize(_, _)
ExprsOfSize(L, n) ==
    IF n <= 0 THEN {}
    ELSE IF n = 1 THEN L
    ELSE {<<LOGICAL_NOT>> \o e : e \in ExprsOfSize(L, n - 1)}
         \cup {<<PAREN_OPEN>> \o e \o <<PAREN_CLOSE>> : e \in ExprsOfSize(L, n - 2)}
         \cup UNION {
                {l \o <<k>> \o r :
                    k \in {LOGICAL_AND, LOGICAL_OR},
                    l \in ExprsOfSize(L, i),
                    r \in ExprsOfSize(L, n - 1 - i)}
                : i \in 1..(n - 2)}

ExprsUpTo(L, n) == UNION {ExprsOfSize(L, i) : i \in 1..n}

ParseLeaves ==
    {Comparison("age", "gt", Prim(Num(1))),
     Comparison("tags", "in", List(<<Num(1), Num(2)>>))}

ShapeOperators == {"eq", "in", "notIn", "between"}

ShapeValues ==
    {Prim(Num(1)), List(<<>>), List(<<Num(1)>>), List(<<Num(1), Num(2)>>),
     List(<<Null, Num(2)>>), List(<<Num(1), Num(2), Num(3)>>)}

ShapeLeaves == {Comparison("f", o, v) : o \in ShapeOperators, v \in ShapeValues}

RawKinds ==
    {IDENT("age"), OPER("gt"), VAL(Prim(Num(1))),
     LOGICAL_AND, LOGICAL_OR, LOGICAL_NOT, PAREN_OPEN, PAREN_CLOSE}

RawQueries == UNION {[1..n -> RawKinds] : n \in 0..MaxTokens}

Queries ==
    ExprsUpTo(ParseLeaves, MaxLexemes)
    \cup ExprsUpTo(ShapeLeaves, MaxShapeLexemes)
    \cup RawQueries

Init ==
    /\ tokens \in {TokenStream(q) : q \in Queries}
    /\ ast = NoAst
    /\ whitelist = WhitelistOptions(Absent, Absent)
    /\ pc = "tokenized"
    /\ result = NoError
    /\ filter = NoFilter
    /\ options = NoOptions
    /\ calls = NoCalls
    /\ operators = NoOperators
    /\ finalized = NoFilter
    /\ query = NoQuery
    /\ charPosition = 0

\* parseQueryString after tokenize(): new Parser(tokens).parse().
Parse ==
    /\ pc = "tokenized"
    /\ LET r == parse(tokens)
       IN  /\ ast' = (IF r.ok THEN r.node ELSE NoAst)
           /\ result' = (IF r.ok THEN NoError ELSE r.error)
    /\ pc' = "parsed"
    /\ UNCHANGED <<tokens, whitelist, filter, options, calls, operators, finalized, query, charPosition>>

Next == Parse

Spec == Init /\ [][Next]_vars

(***************************************************************************)
(* The grammar, read declaratively (spec section 6):                       *)
(*   expr := and_expr ("or" and_expr)*     and_expr := not_expr ("and" ..)* *)
(*   not_expr := "not" not_expr | term     term := comparison | "(" expr ")"*)
(* over the kinds of a stream's tokens.                                    *)
(***************************************************************************)
IsKeyword(k, w) == k.type = "LOGICAL_OP" /\ k.value = w

WellShaped(op, value) ==
    /\ op \in {"in", "notIn"} => value.isArray
    /\ op = "between" => value.isArray /\ Len(value.items) = 2

IsComparison(s) ==
    /\ Len(s) = 3
    /\ s[1].type = "IDENTIFIER"
    /\ s[2].type = "OPERATOR"
    /\ s[3].type = "VALUE"
    /\ WellShaped(s[2].value, s[3].value)

RECURSIVE IsExpr(_)
RECURSIVE IsAndExpr(_)
RECURSIVE IsNotExpr(_)
RECURSIVE IsTerm(_)

IsTerm(s) ==
    \/ IsComparison(s)
    \/ /\ Len(s) >= 3
       /\ s[1].type = "PAREN_OPEN"
       /\ s[Len(s)].type = "PAREN_CLOSE"
       /\ IsExpr(SubSeq(s, 2, Len(s) - 1))

IsNotExpr(s) ==
    \/ IsTerm(s)
    \/ Len(s) >= 2 /\ IsKeyword(s[1], "not") /\ IsNotExpr(Tail(s))

IsAndExpr(s) ==
    \/ IsNotExpr(s)
    \/ \E k \in 2..(Len(s) - 1) :
        /\ IsKeyword(s[k], "and")
        /\ IsAndExpr(SubSeq(s, 1, k - 1))
        /\ IsNotExpr(SubSeq(s, k + 1, Len(s)))

IsExpr(s) ==
    \/ IsAndExpr(s)
    \/ \E k \in 2..(Len(s) - 1) :
        /\ IsKeyword(s[k], "or")
        /\ IsExpr(SubSeq(s, 1, k - 1))
        /\ IsAndExpr(SubSeq(s, k + 1, Len(s)))

\* Parenthesis depth in front of position i.
OpenBefore(s, i) ==
    Cardinality({j \in 1..(i - 1) : s[j].type = "PAREN_OPEN"})
    - Cardinality({j \in 1..(i - 1) : s[j].type = "PAREN_CLOSE"})

TopLevel(s, w) == {i \in 1..Len(s) : IsKeyword(s[i], w) /\ OpenBefore(s, i) = 0}

Last(S) == CHOOSE i \in S : \A j \in S : j <= i

(***************************************************************************)
(* The tree the precedence rules assign to an expression: the root is the  *)
(* last `or` outside parentheses; failing that the last `and` outside      *)
(* parentheses; failing that a leading `not` negates the rest; failing     *)
(* that the parentheses are dropped; what remains is a comparison.         *)
(***************************************************************************)
RECURSIVE GroupingOf(_)
GroupingOf(s) ==
    IF TopLevel(s, "or") # {}
    THEN LET k == Last(TopLevel(s, "or"))
         IN  LogicalNode("OR", GroupingOf(SubSeq(s, 1, k - 1)),
                               GroupingOf(SubSeq(s, k + 1, Len(s))))
    ELSE IF TopLevel(s, "and") # {}
    THEN LET k == Last(TopLevel(s, "and"))
         IN  LogicalNode("AND", GroupingOf(SubSeq(s, 1, k - 1)),
                                GroupingOf(SubSeq(s, k + 1, Len(s))))
    ELSE IF IsKeyword(s[1], "not")
    THEN NotNode(GroupingOf(Tail(s)))
    ELSE IF s[1].type = "PAREN_OPEN"
    THEN GroupingOf(SubSeq(s, 2, Len(s) - 1))
    ELSE ComparisonNode(s[1].value, s[2].value, s[3].value)

HasKeyword(s, w) == \E i \in 1..Len(s) : IsKeyword(s[i], w)
HasParen(s) == \E i \in 1..Len(s) : s[i].type = "PAREN_OPEN"

\* The node a comparison's three tokens stand for.
NodeOf(c) == ComparisonNode(c[1].value, c[2].value, c[3].value)

ParsedAs(q, node) == tokens = TokenStream(q) => (result = NoError /\ ast = node)

AND(l, r) == LogicalNode("AND", l, r)
OR(l, r) == LogicalNode("OR", l, r)

\* C3: OR binds looser than AND and both are left-associative; parentheses
\* override the grouping.  For all comparisons a, b, c the four chains and
\* their parenthesised variants parse to the stated trees, and every
\* expression without `not` parses to the tree the precedence rules assign.
C3_Precedence ==
    pc = "parsed" =>
        /\ \A a \in ParseLeaves, b \in ParseLeaves, c \in ParseLeaves :
            LET A == NodeOf(a)
                B == NodeOf(b)
                C == NodeOf(c)
            IN  /\ ParsedAs(a \o <<LOGICAL_AND>> \o b \o <<LOGICAL_OR>> \o c, OR(AND(A, B), C))
                /\ ParsedAs(a \o <<LOGICAL_OR>> \o b \o <<LOGICAL_AND>> \o c, OR(A, AND(B, C)))
                /\ ParsedAs(a \o <<LOGICAL_AND>> \o b \o <<LOGICAL_AND>> \o c, AND(AND(A, B), C))
                /\ ParsedAs(a \o <<LOGICAL_OR>> \o b \o <<LOGICAL_OR>> \o c, OR(OR(A, B), C))
                /\ ParsedAs(a \o <<LOGICAL_AND, PAREN_OPEN>> \o b \o <<LOGICAL_OR>> \o c
                              \o <<PAREN_CLOSE>>, AND(A, OR(B, C)))
                /\ ParsedAs(<<PAREN_OPEN>> \o a \o <<LOGICAL_OR>> \o b \o <<PAREN_CLOSE, LOGICAL_AND>>
                              \o c, AND(OR(A, B), C))
                /\ ParsedAs(a \o <<LOGICAL_AND, PAREN_OPEN>> \o b \o <<LOGICAL_AND>> \o c
                              \o <<PAREN_CLOSE>>, AND(A, AND(B, C)))
                /\ ParsedAs(a \o <<LOGICAL_OR, PAREN_OPEN>> \o b \o <<LOGICAL_OR>> \o c
                              \o <<PAREN_CLOSE>>, OR(A, OR(B, C)))
        /\ LET s == KindsOf(tokens)
           IN  (IsExpr(s) /\ ~HasKeyword(s, "not"))
                   => (result = NoError /\ ast = GroupingOf(s))

\* `age gt 1 and tags in [1,2] or age gt 1` has been parsed to an OR whose left is an AND.
C3_Witness ==
    /\ pc = "parsed"
    /\ tokens = TokenStream(Comparison("age", "gt", Prim(Num(1))) \o <<LOGICAL_AND>>
                            \o Comparison("tags", "in", List(<<Num(1), Num(2)>>))
                            \o <<LOGICAL_OR>> \o Comparison("age", "gt", Prim(Num(1))))
    /\ ast.type = "OR"
    /\ ast.left.type = "AND"

\* C4: NOT is a prefix operator binding tighter than AND and OR, and it
\* captures exactly the term after its chain of `not` keywords: the four
\* stated queries parse to the stated trees, and every expression holding a
\* `not` parses to the tree the precedence rules assign.
C4_NotBindsTighter ==
    pc = "parsed" =>
        /\ \A a \in ParseLeaves, b \in ParseLeaves :
            LET A == NodeOf(a)
                B == NodeOf(b)
            IN  /\ ParsedAs(<<LOGICAL_NOT>> \o a \o <<LOGICAL_AND>> \o b, AND(NotNode(A), B))
                /\ ParsedAs(<<LOGICAL_NOT>> \o a \o <<LOGICAL_OR>> \o b, OR(NotNode(A), B))
                /\ ParsedAs(<<LOGICAL_NOT, LOGICAL_NOT>> \o a, NotNode(NotNode(A)))
                /\ ParsedAs(<<LOGICAL_NOT, PAREN_OPEN>> \o a \o <<LOGICAL_AND>> \o b
                              \o <<PAREN_CLOSE>>, NotNode(AND(A, B)))
        /\ LET s == KindsOf(tokens)
           IN  (IsExpr(s) /\ HasKeyword(s, "not"))
                   => (result = NoError /\ ast = GroupingOf(s))

\* `not age gt 1 and tags in [1,2]` has been parsed to an AND whose left is the NOT.
C4_Witness ==
    /\ pc = "parsed"
    /\ tokens = TokenStream(<<LOGICAL_NOT>> \o Comparison("age", "gt", Prim(Num(1)))
                            \o <<LOGICAL_AND>>
                            \o Comparison("tags", "in", List(<<Num(1), Num(2)>>)))
    /\ ast.type = "AND"
    /\ ast.left.type = "NOT"

\* An operator token directly followed by a value token it cannot take.
BadPairing(toks) ==
    \E i \in 1..(Len(toks) - 1) :
        /\ toks[i].type = "OPERATOR"
        /\ toks[i + 1].type = "VALUE"
        /\ ~WellShaped(toks[i].value, toks[i + 1].value)

\* C5: in every AST parse returns, in/notIn carry a list (possibly empty)
\* and between carries exactly a 2-element tuple; a query pairing in/notIn
\* with a non-list, or between with a non-list or a list of another length,
\* raises ParseError and returns no AST.
C5_ValueShapes ==
    pc = "parsed" =>
        /\ \A c \in ComparisonsOf(ast) :
            /\ c.op \in {"in", "notIn"} => c.value.isArray
            /\ c.op = "between" => (c.value.isArray /\ Len(c.value.items) = 2)
        /\ BadPairing(tokens) => (result.name = "ParseError" /\ ast = NoAst)

\* `not f between [1,2,3]` has raised ParseError.
C5_Witness ==
    /\ pc = "parsed"
    /\ tokens = TokenStream(<<LOGICAL_NOT>>
                            \o Comparison("f", "between", List(<<Num(1), Num(2), Num(3)>>)))
    /\ result.name = "ParseError"

\* C6: parse returns an AST exactly when the tokens before end-of-input are
\* one complete expression of the grammar; an empty stream, leftover
\* tokens, a missing field, operator or value and an unclosed parenthesis
\* each raise ParseError, and then no AST is returned.
C6_WholeStreamOrParseError ==
    pc = "parsed" =>
        /\ (result = NoError) <=> IsExpr(KindsOf(tokens))
        /\ result = NoError => ast # NoAst
        /\ result # NoError => (result.name = "ParseError" /\ ast = NoAst)

\* `( age gt 1` has raised ParseError.
C6_Witness ==
    /\ pc = "parsed"
    /\ tokens = TokenStream(<<PAREN_OPEN>> \o Comparison("age", "gt", Prim(Num(1))))
    /\ result.name = "ParseError"
    /\ ast = NoAst

(***************************************************************************)
(* Validator (parser/validator.ts).                                        *)
(***************************************************************************)
\* typeof of a scalar of the model; typeof null is "object".
typeof(v) == IF v.t = "null" THEN "object" ELSE v.t

\* The first error of a sequence of call results: a throw ends the sequence.
RECURSIVE firstError(_)
firstError(outcomes) ==
    IF outcomes = <<>> THEN NoError
    ELSE IF Head(outcomes) # NoError THEN Head(outcomes)
    ELSE firstError(Tail(outcomes))

throwTypeError(node, expected) ==
    ValidationError("Field '" \o node.field \o "' expects " \o expected \o " values",
                    node.field, node.op)

\* Date.parse over the strings of the model: the year "2024" parses, the
\* other strings do not.
ParsableDates == {<<"2", "0", "2", "4">>}

isParsableDate(value) == typeof(value) = "string" /\ value.v \in ParsableDates

HexDigits ==
    {"0", "1", "2", "3", "4", "5", "6", "7", "8", "9",
     "a", "b", "c", "d", "e", "f", "A", "B", "C", "D", "E", "F"}

\* /^[0-9a-f]{8}-[0-9a-f]{4}-[1-5][0-9a-f]{3}-[89ab][0-9a-f]{3}-[0-9a-f]{12}$/i
isUuid(chars) ==
    /\ Len(chars) = 36
    /\ \A i \in 1..36 :
        IF i \in {9, 14, 19, 24} THEN chars[i] = "-"
        ELSE IF i = 15 THEN chars[i] \in {"1", "2", "3", "4", "5"}
        ELSE IF i = 20 THEN chars[i] \in {"8", "9", "a", "b", "A", "B"}
        ELSE chars[i] \in HexDigits

ensurePrimitiveType(node, definition, value) ==
    IF value.t = "null" THEN
        IF definition.allowNull THEN NoError
        ELSE ValidationError("Field '" \o node.field \o "' does not allow null values",
                             node.field, node.op)
    ELSE CASE definition.type = "string" ->
                IF typeof(value) # "string" THEN throwTypeError(node, "string") ELSE NoError
           [] definition.type = "number" ->
                IF typeof(value) # "number" THEN throwTypeError(node, "number") ELSE NoError
           [] definition.type = "boolean" ->
                IF typeof(value) # "boolean" THEN throwTypeError(node, "boolean") ELSE NoError
           [] definition.type \in {"date", "datetime"} ->
                IF ~isParsableDate(value) THEN throwTypeError(node, "ISO date string")
                ELSE NoError
           [] definition.type = "uuid" ->
                IF typeof(value) # "string" \/ ~isUuid(value.v)
                THEN throwTypeError(node, "UUID string") ELSE NoError
           [] definition.type = "enum" ->
                IF \/ (typeof(value) # "string" /\ typeof(value) # "number")
                   \/ value \notin definition.enumValues
                THEN ValidationError("Field '" \o node.field \o "' must be one of",
                                     node.field, node.op)
                ELSE NoError
           [] definition.type = "json" ->
                IF typeof(value) \notin {"string", "number", "boolean"}
                THEN throwTypeError(node, "JSON primitive") ELSE NoError
           [] OTHER -> NoError

\* value.forEach((item) => ensurePrimitiveType(node, definition, item))
ensureEach(node, definition, items) ==
    firstError([i \in 1..Len(items) |-> ensurePrimitiveType(node, definition, items[i])])

ensureArrayValues(node, definition, value) ==
    IF ~value.isArray
    THEN ValidationError("Field '" \o node.field \o "' expects an array for operator '"
                            \o node.op \o "'", node.field, node.op)
    ELSE ensureEach(node, definition, value.items)

ensureBetweenValues(node, definition, value) ==
    IF ~value.isArray \/ Len(value.items) # 2
    THEN ValidationError("Field '" \o node.field \o "' expects exactly two values for 'between'",
                         node.field, node.op)
    ELSE ensureEach(node, definition, value.items)

ensureStringOperation(node) ==
    IF node.value.isArray \/ typeof(node.value.items[1]) # "string"
    THEN ValidationError("Operator '" \o node.op \o "' requires a string value",
                         node.field, node.op)
    ELSE NoError

ensurePrimitiveValue(node, definition, value) ==
    IF value.isArray THEN
        IF ~definition.acceptsArrays
        THEN ValidationError("Field '" \o node.field \o "' does not accept array values",
                             node.field, node.op)
        ELSE ensureEach(node, definition, value.items)
    ELSE ensurePrimitiveType(node, definition, value.items[1])

validateFieldType(node, definition) ==
    IF definition.validator.given /\ ~definition.validator.returns
    THEN ValidationError("Field '" \o node.field \o "' failed custom validation",
                         node.field, "undefined")
    ELSE CASE node.op \in {"in", "notIn"} -> ensureArrayValues(node, definition, node.value)
           [] node.op = "between" -> ensureBetweenValues(node, definition, node.value)
           [] node.op \in {"contains", "startsWith", "endsWith"} ->
                firstError(<<ensureStringOperation(node),
                             ensurePrimitiveValue(node, definition, node.value)>>)
           [] OTHER -> ensurePrimitiveValue(node, definition, node.value)

\* The messages of the two whitelist errors end with the list of allowed
\* names, and those of in/notIn with the typeof of the value; the model keeps
\* the text ahead of them.
validateComparisonNode_operatorFirst(node, wl) ==
    IF /\ wl.allowedOperators.given
       /\ Cardinality(wl.allowedOperators.list) > 0
       /\ node.op \notin wl.allowedOperators.list
    THEN ValidationError("Operator '" \o node.op \o "' is not allowed", node.field, node.op)
    ELSE IF /\ wl.allowedFields.given
            /\ Cardinality(wl.allowedFields.list) > 0
            /\ node.field \notin wl.allowedFields.list
    THEN ValidationError("Field '" \o node.field \o "' is not allowed", node.field, "undefined")
    ELSE IF node.op = "in" /\ ~node.value.isArray
    THEN ValidationError("Operator 'in' requires an array value", node.field, node.op)
    ELSE IF node.op = "notIn" /\ ~node.value.isArray
    THEN ValidationError("Operator 'notIn' requires an array value", node.field, node.op)
    ELSE IF node.op = "between" /\ (~node.value.isArray \/ Len(node.value.items) # 2)
    THEN ValidationError("Operator 'between' requires exactly two values", node.field, node.op)
    ELSE IF wl.fieldTypes.given /\ node.field \in DOMAIN wl.fieldTypes.map
    THEN validateFieldType(node, wl.fieldTypes.map[node.field])
    ELSE NoError

validateComparisonNode(node, wl) ==
    IF /\ wl.allowedFields.given
       /\ Cardinality(wl.allowedFields.list) > 0
       /\ node.field \notin wl.allowedFields.list
    THEN ValidationError("Field '" \o node.field \o "' is not allowed", node.field, "undefined")
    ELSE IF /\ wl.allowedOperators.given
            /\ Cardinality(wl.allowedOperators.list) > 0
            /\ node.op \notin wl.allowedOperators.list
    THEN ValidationError("Operator '" \o node.op \o "' is not allowed", node.field, node.op)
    ELSE IF node.op = "in" /\ ~node.value.isArray
    THEN ValidationError("Operator 'in' requires an array value", node.field, node.op)
    ELSE IF node.op = "notIn" /\ ~node.value.isArray
    THEN ValidationError("Operator 'notIn' requires an array value", node.field, node.op)
    ELSE IF node.op = "between" /\ (~node.value.isArray \/ Len(node.value.items) # 2)
    THEN ValidationError("Operator 'between' requires exactly two values", node.field, node.op)
    ELSE IF wl.fieldTypes.given /\ node.field \in DOMAIN wl.fieldTypes.map
    THEN validateFieldType(node, wl.fieldTypes.map[node.field])
    ELSE NoError


RECURSIVE validateNode(_, _)
validateLogicalNode(node, wl) ==
    LET l == validateNode(node.left, wl)
    IN  IF l # NoError THEN l ELSE validateNode(node.right, wl)

validateNode(node, wl) ==
    IF isComparisonNode(node) THEN validateComparisonNode(node, wl)
    ELSE IF isLogicalNode(node) THEN validateLogicalNode(node, wl)
    ELSE IF isNotNode(node) THEN validateNode(node.child, wl)
    ELSE NoError

validateQuery(a, wl) == validateNode(a, wl)

(***************************************************************************)
(* SpecValidate: validateQuery applied to every tree of at most            *)
(* MaxValidateNodes nodes over two fields and two operators, under every   *)
(* whitelist over those fields and operators (each list undefined, empty   *)
(* or non-empty).                                                          *)
(***************************************************************************)
MaxValidateNodes == 4

ValidateFields == {"age", "name"}
ValidateOps == {"gt", "in"}

ValidateLeaves ==
    {ComparisonNode(f, "gt", Prim(Num(1))) : f \in ValidateFields}
    \cup {ComparisonNode(f, "in", List(<<Num(1)>>)) : f \in ValidateFields}

ValidateAsts == TreesUpTo(ValidateLeaves, MaxValidateNodes, TRUE)

Whitelists ==
    {WhitelistOptions(F, O) :
        F \in {Absent} \cup {Given(S) : S \in SUBSET ValidateFields},
        O \in {Absent} \cup {Given(S) : S \in SUBSET ValidateOps}}

InitValidate ==
    /\ tokens = <<>>
    /\ ast \in ValidateAsts
    /\ whitelist \in Whitelists
    /\ pc = "built"
    /\ result = NoError
    /\ filter = NoFilter
    /\ options = NoOptions
    /\ calls = NoCalls
    /\ operators = NoOperators
    /\ finalized = NoFilter
    /\ query = NoQuery
    /\ charPosition = 0

Validate ==
    /\ pc = "built"
    /\ result' = validateQuery(ast, whitelist)
    /\ pc' = "validated"
    /\ UNCHANGED <<tokens, ast, whitelist, filter, options, calls, operators, finalized, query, charPosition>>

NextValidate == Validate

SpecValidate == InitValidate /\ [][NextValidate]_vars

\* What the whitelist declares: a comparison is outside it when a list is
\* supplied and does not hold the comparison's field (operator).
OutsideWhitelist(c, wl) ==
    \/ wl.allowedFields.given /\ c.field \notin wl.allowedFields.list
    \/ wl.allowedOperators.given /\ c.op \notin wl.allowedOperators.list

\* C1: validate rejects a comparison outside the supplied whitelist at every
\* tree position: whenever any comparison of the tree (root, either side of
\* AND/OR, under NOT) is outside the whitelist, validateQuery raises
\* ValidationError.
C1_RejectsAtEveryPosition ==
    pc = "validated" =>
        ((\E c \in ComparisonsOf(ast) : OutsideWhitelist(c, whitelist))
            => result.name = "ValidationError")

\* C2: validate returns normally if and only if every comparison has its
\* field in the supplied allowedFields and its operator in the supplied
\* allowedOperators (the lists possibly empty).
C2_ExactWhitelist ==
    pc = "validated" =>
        ((result = NoError)
            <=> (\A c \in ComparisonsOf(ast) : ~OutsideWhitelist(c, whitelist)))

(***************************************************************************)
(* JavaScript objects and calls.  An object is a function from its keys    *)
(* (strings) to their values; `o.k` is truthy for an array, object or      *)
(* non-empty string exactly when k is a key of o.  A call either returns   *)
(* a value or raises.                                                      *)
(***************************************************************************)
Returned(v) == [ok |-> TRUE, value |-> v]

EmptyObject == <<>>
Object(k, v) == k :> v
Has(o, k) == k \in DOMAIN o
\* Object.assign(target, source) and {...target, ...source}: source's keys win.
assign(target, source) == source @@ target
\* delete o[k]
delete(o, k) == [x \in DOMAIN o \ {k} |-> o[x]]

\* Object.assign({}, ...objects)
RECURSIVE assignAll(_)
assignAll(objects) ==
    IF objects = <<>> THEN EmptyObject
    ELSE assign(assignAll(SubSeq(objects, 1, Len(objects) - 1)), objects[Len(objects)])

(***************************************************************************)
(* Prisma backend (adapters/prisma.ts).                                    *)
(***************************************************************************)
prisma_transformComparisonNode(node) ==
    LET field == node.field
        op == node.op
        value == node.value
    IN  CASE op = "eq" -> Returned(Object(field, Object("equals", value)))
          [] op = "ne" -> Returned(Object(field, Object("not", value)))
          [] op = "gt" -> Returned(Object(field, Object("gt", value)))
          [] op = "lt" -> Returned(Object(field, Object("lt", value)))
          [] op = "gte" -> Returned(Object(field, Object("gte", value)))
          [] op = "lte" -> Returned(Object(field, Object("lte", value)))
          [] op = "in" -> Returned(Object(field, Object("in", value)))
          [] op = "contains" -> Returned(Object(field, Object("contains", value)))
          [] OTHER -> Raised(CompileError("Unsupported operator: " \o op))

prisma_mergeFilters_assignOnly(left, right) == assign(left, right)

prisma_mergeFilters(left, right) ==
    IF Has(left, "OR") \/ Has(right, "OR")
    THEN LET leftWithoutOr == delete(left, "OR")
             rightWithoutOr == delete(right, "OR")
             merged == assign(assign(left, leftWithoutOr), rightWithoutOr)
         IN  IF Has(left, "OR") /\ Has(right, "OR")
             THEN assign(merged, Object("OR", left["OR"] \o right["OR"]))
             ELSE IF Has(left, "OR")
             THEN assign(merged, Object("OR", left["OR"]))
             ELSE assign(merged, Object("OR", right["OR"]))
    ELSE assign(left, right)

RECURSIVE prisma_transformNode(_)
prisma_transformLogicalNode(node) ==
    LET l == prisma_transformNode(node.left)
    IN  IF ~l.ok THEN l
        ELSE LET r == prisma_transformNode(node.right)
             IN  IF ~r.ok THEN r
                 ELSE LET leftFilter == l.value
                          rightFilter == r.value
                      IN  IF node.type = "AND"
                          THEN Returned(prisma_mergeFilters(leftFilter, rightFilter))
                          ELSE IF Has(leftFilter, "OR") /\ Has(rightFilter, "OR")
                          THEN Returned(Object("OR", leftFilter["OR"] \o rightFilter["OR"]))
                          ELSE IF Has(leftFilter, "OR")
                          THEN Returned(Object("OR", Append(leftFilter["OR"], rightFilter)))
                          ELSE IF Has(rightFilter, "OR")
                          THEN Returned(Object("OR", <<leftFilter>> \o rightFilter["OR"]))
                          ELSE Returned(Object("OR", <<leftFilter, rightFilter>>))

prisma_transformNode(node) ==
    IF isComparisonNode(node) THEN prisma_transformComparisonNode(node)
    ELSE IF isLogicalNode(node) THEN prisma_transformLogicalNode(node)
    ELSE Raised(CompileError("Invalid node type"))

toPrismaFilter(a) ==
    LET where == prisma_transformNode(a)
    IN  IF where.ok THEN Returned(Object("where", where.value)) ELSE where

(***************************************************************************)
(* TypeORM backend (adapters/typeorm.ts).  A `where` is an object or an    *)
(* array of objects: Prim(o) or List(os), as for values.                   *)
(***************************************************************************)
Envelope(op, value) == ("__qast_operator__" :> op) @@ ("value" :> value)

typeorm_transformComparisonNode(node) ==
    LET field == node.field
        op == node.op
        value == node.value
    IN  CASE op = "eq" -> Returned(Prim(Object(field, value)))
          [] op \in {"ne", "gt", "lt", "gte", "lte", "in", "contains"} ->
                Returned(Prim(Object(field, Envelope(op, value))))
          [] OTHER -> Raised(CompileError("Unsupported operator: " \o op))

typeorm_mergeFilters(left, right) ==
    IF left.isArray \/ right.isArray
    THEN LET leftObj == IF left.isArray THEN assignAll(left.items) ELSE left.items[1]
             rightObj == IF right.isArray THEN assignAll(right.items) ELSE right.items[1]
         IN  Prim(assign(leftObj, rightObj))
    ELSE Prim(assign(left.items[1], right.items[1]))

RECURSIVE typeorm_transformNode(_)
typeorm_transformLogicalNode(node) ==
    LET l == typeorm_transformNode(node.left)
    IN  IF ~l.ok THEN l
        ELSE LET r == typeorm_transformNode(node.right)
             IN  IF ~r.ok THEN r
                 ELSE IF node.type = "AND"
                 THEN Returned(typeorm_mergeFilters(l.value, r.value))
                 ELSE \* [x] for an object x, the array itself otherwise
                      Returned(List(l.value.items \o r.value.items))

typeorm_transformNode(node) ==
    IF isComparisonNode(node) THEN typeorm_transformComparisonNode(node)
    ELSE IF isLogicalNode(node) THEN typeorm_transformLogicalNode(node)
    ELSE Raised(CompileError("Invalid node type"))

toTypeORMFilter(a) ==
    LET where == typeorm_transformNode(a)
    IN  IF where.ok THEN Returned(Object("where", where.value)) ELSE where

(***************************************************************************)
(* Sequelize backend (adapters/sequelize.ts).                              *)
(***************************************************************************)
\* The string a marker property holds.  It is a JS string like the string
\* value of a comparison, so it is written the same way.
MarkerString(kind) ==
    CASE kind = "and" -> Prim(Str(<<"a", "n", "d">>))
      [] kind = "or" -> Prim(Str(<<"o", "r">>))
      [] kind = "not" -> Prim(Str(<<"n", "o", "t">>))

Logical(kind, conditions) ==
    ("__qast_logical__" :> MarkerString(kind)) @@ ("conditions" :> conditions)

\* (filter as any).__qast_logical__ === kind
logicalIs(f, kind) == Has(f, "__qast_logical__") /\ f["__qast_logical__"] = MarkerString(kind)

TypeError(msg) == [name |-> "TypeError", message |-> msg]

\* ...(filter as any).conditions: spreading undefined is a TypeError.
spreadConditions(f) ==
    IF Has(f, "conditions") THEN Returned(f["conditions"])
    ELSE Raised(TypeError("undefined is not iterable"))

sequelize_transformComparisonNode(node) ==
    LET field == node.field
        op == node.op
        value == node.value
    IN  IF op = "eq" THEN Returned(Object(field, value))
        ELSE IF op \in {"ne", "gt", "lt", "gte", "lte", "in", "notIn",
                        "contains", "startsWith", "endsWith", "between"}
        THEN Returned(Object(field, Envelope(op, value)))
        ELSE Raised(CompileError("Unsupported operator: " \o op))

RECURSIVE sequelize_transformNode(_)
sequelize_transformLogicalNode(node) ==
    LET l == sequelize_transformNode(node.left)
    IN  IF ~l.ok THEN l
        ELSE LET r == sequelize_transformNode(node.right)
             IN  IF ~r.ok THEN r
                 ELSE LET leftFilter == l.value
                          rightFilter == r.value
                          kind == IF node.type = "AND" THEN "and" ELSE "or"
                          leftConditions == spreadConditions(leftFilter)
                          rightConditions == spreadConditions(rightFilter)
                      IN  IF logicalIs(leftFilter, kind) /\ logicalIs(rightFilter, kind)
                          THEN IF ~leftConditions.ok THEN leftConditions
                               ELSE IF ~rightConditions.ok THEN rightConditions
                               ELSE Returned(Logical(kind, leftConditions.value
                                                              \o rightConditions.value))
                          ELSE IF logicalIs(leftFilter, kind)
                          THEN IF ~leftConditions.ok THEN leftConditions
                               ELSE Returned(Logical(kind,
                                                Append(leftConditions.value, rightFilter)))
                          ELSE IF logicalIs(rightFilter, kind)
                          THEN IF ~rightConditions.ok THEN rightConditions
                               ELSE Returned(Logical(kind,
                                                <<leftFilter>> \o rightConditions.value))
                          ELSE Returned(Logical(kind, <<leftFilter, rightFilter>>))

sequelize_transformNode(node) ==
    IF isComparisonNode(node) THEN sequelize_transformComparisonNode(node)
    ELSE IF isLogicalNode(node) THEN sequelize_transformLogicalNode(node)
    ELSE IF isNotNode(node)
    THEN LET c == sequelize_transformNode(node.child)
         IN  IF ~c.ok THEN c
             ELSE Returned(("__qast_logical__" :> MarkerString("not"))
                            @@ ("condition" :> c.value))
    ELSE Raised(CompileError("Invalid node type"))

toSequelizeFilter(a) == sequelize_transformNode(a)

(***************************************************************************)
(* Mongo backend (adapters/mongo.ts).  A string is the sequence of its     *)
(* characters; a pattern is the sequence of the pieces concatenated.       *)
(***************************************************************************)
RegexMetachars == {".", "*", "+", "?", "^", "$", "{", "}", "(", ")", "|", "[", "]", "\\"}

\* value.replace(/[.*+?^${}()|[\]\\]/g, '\\$&')
RECURSIVE escapeRegex(_)
escapeRegex(chars) ==
    IF chars = <<>> THEN <<>>
    ELSE (IF Head(chars) \in RegexMetachars THEN <<"\\", Head(chars)>> ELSE <<Head(chars)>>)
         \o escapeRegex(Tail(chars))

buildRegex(value, mode) ==
    LET pattern == escapeRegex(value.items[1].v)
        anchored == CASE mode = "contains" -> <<".*">> \o pattern \o <<".*">>
                      [] mode = "startsWith" -> <<"^">> \o pattern \o <<".*">>
                      [] mode = "endsWith" -> <<".*">> \o pattern \o <<"$">>
    IN  ("$regex" :> anchored) @@ ("$options" :> <<"i">>)

mongo_transformComparison(node) ==
    LET field == node.field
        op == node.op
        value == node.value
    IN  CASE op = "eq" -> Returned(Object(field, value))
          [] op = "ne" -> Returned(Object(field, Object("$ne", value)))
          [] op = "gt" -> Returned(Object(field, Object("$gt", value)))
          [] op = "gte" -> Returned(Object(field, Object("$gte", value)))
          [] op = "lt" -> Returned(Object(field, Object("$lt", value)))
          [] op = "lte" -> Returned(Object(field, Object("$lte", value)))
          [] op = "in" -> Returned(Object(field, Object("$in", value)))
          [] op = "notIn" -> Returned(Object(field, Object("$nin", value)))
          [] op \in {"contains", "startsWith", "endsWith"} ->
                Returned(Object(field, buildRegex(value, op)))
          [] op = "between" ->
                LET start == value.items[1]
                    end == value.items[2]
                    withStart == IF ~isNull(start) THEN Object("$gte", start) ELSE EmptyObject
                    range == IF ~isNull(end) THEN assign(withStart, Object("$lte", end))
                             ELSE withStart
                IN  Returned(Object(field, range))
          [] OTHER -> Raised(CompileError("Unsupported operator: " \o op))

flattenLogical_noSplice(operator, nodes) == nodes

RECURSIVE flattenLogical(_, _)
flattenLogical(operator, nodes) ==
    IF nodes = <<>> THEN <<>>
    ELSE (IF Has(Head(nodes), operator) THEN Head(nodes)[operator] ELSE <<Head(nodes)>>)
         \o flattenLogical(operator, Tail(nodes))

RECURSIVE mongo_transformNode(_)
mongo_transformLogical(node) ==
    LET operator == IF node.type = "AND" THEN "$and" ELSE "$or"
        l == mongo_transformNode(node.left)
    IN  IF ~l.ok THEN l
        ELSE LET r == mongo_transformNode(node.right)
             IN  IF ~r.ok THEN r
                 ELSE Returned(Object(operator, flattenLogical(operator, <<l.value, r.value>>)))

mongo_transformNode(node) ==
    IF isComparisonNode(node) THEN mongo_transformComparison(node)
    ELSE IF isLogicalNode(node) THEN mongo_transformLogical(node)
    ELSE IF isNotNode(node)
    THEN LET c == mongo_transformNode(node.child)
         IN  IF ~c.ok THEN c ELSE Returned(Object("$nor", <<c.value>>))
    ELSE Raised(CompileError("Invalid node type"))

toMongoFilter(a) == mongo_transformNode(a)

(***************************************************************************)
(* SQL backend (adapters/sql.ts, SqlFilterBuilder).  The text is the       *)
(* sequence of the pieces its template literals concatenate, each piece    *)
(* tagged with where it comes from: fixed template text ("sql"), a quoted  *)
(* identifier, the string placeholder() returned, or an interpolated       *)
(* value.  this.params is threaded through the builder's methods: each     *)
(* takes the list so far and returns the text with the list after it.      *)
(***************************************************************************)
Piece(kind, s) == [kind |-> kind, s |-> s]
Sql(s) == Piece("sql", s)

Built(text, params) == [ok |-> TRUE, text |-> text, params |-> params]

\* Fields of the inputs hold neither `.` nor `"`: one segment, nothing doubled.
quoteIdentifier(field) == Piece("identifier", "\"" \o field \o "\"")

\* `${value}` in a template literal: String(value).
RECURSIVE joinItems(_)
joinItems(items) ==
    IF items = <<>> THEN <<>>
    ELSE (IF isNull(Head(items)) THEN <<>>
          ELSE IF Head(items).t = "number" THEN <<ToString(Head(items).v)>>
          ELSE Head(items).v)
         \o (IF Len(items) > 1 THEN <<",">> ELSE <<>>)
         \o joinItems(Tail(items))

templateString(value) ==
    IF value.isArray THEN joinItems(value.items)
    ELSE IF isNull(value.items[1]) THEN <<"null">>
    ELSE IF value.items[1].t = "number" THEN <<ToString(value.items[1].v)>>
    ELSE value.items[1].v

\* this.params.push(value); return `$${this.params.length}`
placeholder_beforePush(value, params) ==
    Built(<<Piece("placeholder", "$" \o ToString(Len(params)))>>, Append(params, value))

placeholder(value, params) ==
    LET pushed == Append(params, value)
    IN  Built(<<Piece("placeholder", "$" \o ToString(Len(pushed)))>>, pushed)

eqClause_bindNull(column, value, params) ==
    LET p == placeholder(value, params)
    IN  Built(<<column, Sql(" = ")>> \o p.text, p.params)

eqClause(column, value, params) ==
    IF ~value.isArray /\ isNull(value.items[1]) THEN Built(<<column, Sql(" IS NULL")>>, params)
    ELSE LET p == placeholder(value, params)
         IN  Built(<<column, Sql(" = ")>> \o p.text, p.params)

neClause(column, value, params) ==
    IF ~value.isArray /\ isNull(value.items[1]) THEN Built(<<column, Sql(" IS NOT NULL")>>, params)
    ELSE LET p == placeholder(value, params)
         IN  Built(<<column, Sql(" <> ")>> \o p.text, p.params)

\* values.map((v) => this.placeholder(v)).join(', ')
RECURSIVE mapPlaceholders(_, _)
mapPlaceholders(values, params) ==
    IF values = <<>> THEN Built(<<>>, params)
    ELSE LET p == placeholder(Prim(Head(values)), params)
             rest == mapPlaceholders(Tail(values), p.params)
         IN  Built(p.text \o (IF Len(values) > 1 THEN <<Sql(", ")>> ELSE <<>>) \o rest.text,
                   rest.params)

listClause_allowEmpty(column, values, negate, params) ==
    LET placeholders == mapPlaceholders(values.items, params)
        operator == IF negate THEN "NOT IN" ELSE "IN"
    IN  Built(<<column, Sql(" " \o operator \o " (")>> \o placeholders.text \o <<Sql(")")>>,
              placeholders.params)

listClause(column, values, negate, params) ==
    IF ~values.isArray \/ Len(values.items) = 0
    THEN Raised(CompileError("Operator '" \o (IF negate THEN "notIn" ELSE "in")
                                \o "' requires at least one value."))
    ELSE LET placeholders == mapPlaceholders(values.items, params)
             operator == IF negate THEN "NOT IN" ELSE "IN"
         IN  Built(<<column, Sql(" " \o operator \o " (")>> \o placeholders.text \o <<Sql(")")>>,
                   placeholders.params)

betweenClause(column, range, params) ==
    LET start == range.items[1]
        end == range.items[2]
        hasStart == ~isNull(start)
        hasEnd == ~isNull(end)
    IN  IF hasStart /\ hasEnd
        THEN LET a == placeholder(Prim(start), params)
                 b == placeholder(Prim(end), a.params)
             IN  Built(<<column, Sql(" BETWEEN ")>> \o a.text \o <<Sql(" AND ")>> \o b.text,
                       b.params)
        ELSE IF hasStart
        THEN LET a == placeholder(Prim(start), params)
             IN  Built(<<column, Sql(" >= ")>> \o a.text, a.params)
        ELSE IF hasEnd
        THEN LET b == placeholder(Prim(end), params)
             IN  Built(<<column, Sql(" <= ")>> \o b.text, b.params)
        ELSE Built(<<Sql("1 = 1")>>, params)

\* `${column} <sign> ${this.placeholder(bound)}`
binaryClause(column, sign, bound, params) ==
    LET p == placeholder(bound, params)
    IN  Built(<<column, Sql(" " \o sign \o " ")>> \o p.text, p.params)

Like(before, value, after) == Prim(Str(before \o templateString(value) \o after))

transformComparison(node, params) ==
    LET column == quoteIdentifier(node.field)
        value == node.value
        op == node.op
    IN  CASE op = "eq" -> eqClause(column, value, params)
          [] op = "ne" -> neClause(column, value, params)
          [] op = "gt" -> binaryClause(column, ">", value, params)
          [] op = "gte" -> binaryClause(column, ">=", value, params)
          [] op = "lt" -> binaryClause(column, "<", value, params)
          [] op = "lte" -> binaryClause(column, "<=", value, params)
          [] op = "in" -> listClause(column, value, FALSE, params)
          [] op = "notIn" -> listClause(column, value, TRUE, params)
          [] op = "contains" -> binaryClause(column, "LIKE", Like(<<"%">>, value, <<"%">>), params)
          [] op = "startsWith" -> binaryClause(column, "LIKE", Like(<<>>, value, <<"%">>), params)
          [] op = "endsWith" -> binaryClause(column, "LIKE", Like(<<"%">>, value, <<>>), params)
          [] op = "between" -> betweenClause(column, value, params)
          [] OTHER -> Raised(CompileError("Unsupported operator: " \o op))

RECURSIVE sql_transformNode(_, _)
sql_transformNode(node, params) ==
    IF isComparisonNode(node) THEN transformComparison(node, params)
    ELSE IF isLogicalNode(node)
    THEN LET left == sql_transformNode(node.left, params)
         IN  IF ~left.ok THEN left
             ELSE LET right == sql_transformNode(node.right, left.params)
                      operator == IF node.type = "AND" THEN "AND" ELSE "OR"
                  IN  IF ~right.ok THEN right
                      ELSE Built(<<Sql("(")>> \o left.text \o <<Sql(" " \o operator \o " ")>>
                                   \o right.text \o <<Sql(")")>>,
                                 right.params)
    ELSE IF isNotNode(node)
    THEN LET clause == sql_transformNode(node.child, params)
         IN  IF ~clause.ok THEN clause
             ELSE Built(<<Sql("(NOT (")>> \o clause.text \o <<Sql("))")>>, clause.params)
    ELSE Raised(CompileError("Invalid node type"))

\* new SqlFilterBuilder().build(ast): params starts empty.
build(a) ==
    LET text == sql_transformNode(a, <<>>)
    IN  IF text.ok THEN Returned([text |-> text.text, params |-> text.params]) ELSE text

toSqlFilter(a) == build(a)

(***************************************************************************)
(* SpecCompile: each backend compiler applied to an AST.  The ASTs are     *)
(*   - the AND/OR trees of up to MaxBooleanLeaves comparisons over three   *)
(*     numeric comparisons, two of them on the same field, and the two     *)
(*     four-comparison shapes `(x and (a or b)) or c` and                  *)
(*     `(a or b) and (c or d)`;                                            *)
(*   - the trees of up to MaxOperatorNodes nodes over comparisons of all   *)
(*     twelve operators, each with the value shapes it admits;             *)
(*   - the trees of up to MaxNotNodes nodes with NOT over the numeric      *)
(*     comparisons.                                                        *)
(***************************************************************************)
MaxBooleanLeaves == 3
MaxOperatorNodes == 3
MaxNotNodes == 4

BooleanLeaves ==
    {ComparisonNode("f", "gt", Prim(Num(1))),
     ComparisonNode("f", "lt", Prim(Num(5))),
     ComparisonNode("g", "eq", Prim(Num(1)))}

BooleanAsts ==
    UNION {TreesOfSize(BooleanLeaves, 2 * k - 1, FALSE) : k \in 1..MaxBooleanLeaves}

NestedAsts ==
    {OR(AND(x, OR(a, b)), c) : x \in BooleanLeaves, a \in BooleanLeaves,
                               b \in BooleanLeaves, c \in BooleanLeaves}
    \cup {AND(OR(a, b), OR(c, d)) : a \in BooleanLeaves, b \in BooleanLeaves,
                                    c \in BooleanLeaves, d \in BooleanLeaves}

OperatorLeaves ==
    {ComparisonNode("f", o, Prim(Num(1))) : o \in {"eq", "ne", "gt", "lt", "gte", "lte"}}
    \cup {ComparisonNode("f", o, Prim(Null)) : o \in {"eq", "ne"}}
    \cup {ComparisonNode("f", o, v) :
            o \in {"in", "notIn"}, v \in {List(<<>>), List(<<Num(1), Num(2)>>)}}
    \cup {ComparisonNode("name", o, Prim(Str(<<"J", "o">>))) :
            o \in {"contains", "startsWith", "endsWith"}}
    \cup {ComparisonNode("name", "contains", Prim(Str(<<"a", ".">>)))}
    \cup {ComparisonNode("f", "between", List(<<lo, hi>>)) :
            lo \in {Num(1), Null}, hi \in {Num(5), Null}}

OperatorAsts == TreesUpTo(OperatorLeaves, MaxOperatorNodes, TRUE)

NotAsts == TreesUpTo(BooleanLeaves, MaxNotNodes, TRUE)

CompileAsts == BooleanAsts \cup NestedAsts \cup OperatorAsts \cup NotAsts

Backends == {"prisma", "typeorm", "sequelize", "mongo", "sql"}

InitCompile ==
    /\ tokens = <<>>
    /\ ast \in CompileAsts
    /\ whitelist = WhitelistOptions(Absent, Absent)
    /\ pc = "built"
    /\ result = NoError
    /\ filter = NoFilter
    /\ options = NoOptions
    /\ calls = NoCalls
    /\ operators = NoOperators
    /\ finalized = NoFilter
    /\ query = NoQuery
    /\ charPosition = 0

\* One call of a backend on the AST: `out` is what the call returned or raised.
Compile(backend, out) ==
    /\ pc = "built"
    /\ pc' = backend
    /\ filter' = (IF out.ok THEN out.value ELSE NoFilter)
    /\ result' = (IF out.ok THEN NoError ELSE out.error)
    /\ UNCHANGED <<tokens, ast, whitelist, options, calls, operators, finalized, query, charPosition>>

ToPrismaFilter == Compile("prisma", toPrismaFilter(ast))
ToTypeORMFilter == Compile("typeorm", toTypeORMFilter(ast))
ToSequelizeFilter == Compile("sequelize", toSequelizeFilter(ast))
ToMongoFilter == Compile("mongo", toMongoFilter(ast))
ToSqlFilter == Compile("sql", toSqlFilter(ast))

NextCompile ==
    \/ ToPrismaFilter
    \/ ToTypeORMFilter
    \/ ToSequelizeFilter
    \/ ToMongoFilter
    \/ ToSqlFilter

SpecCompile == InitCompile /\ [][NextCompile]_vars

(***************************************************************************)
(* What a filter selects.  A row gives each field a number; an AST holds   *)
(* of a row by the meaning of its operators, and a Prisma `where` holds of *)
(* it when every field entry does and, if there is an `OR` array, one of   *)
(* its elements does.                                                      *)
(***************************************************************************)
Rows == {("f" :> x) @@ ("g" :> y) : x \in 0..6, y \in 0..2}

Compare(op, x, n) ==
    CASE op \in {"eq", "equals"} -> x = n
      [] op \in {"ne", "not"} -> x # n
      [] op = "gt" -> x > n
      [] op = "lt" -> x < n
      [] op = "gte" -> x >= n
      [] op = "lte" -> x <= n

RECURSIVE Holds(_, _)
Holds(node, row) ==
    IF isComparisonNode(node) THEN Compare(node.op, row[node.field], node.value.items[1].v)
    ELSE IF node.type = "AND" THEN Holds(node.left, row) /\ Holds(node.right, row)
    ELSE IF node.type = "OR" THEN Holds(node.left, row) \/ Holds(node.right, row)
    ELSE ~Holds(node.child, row)

RECURSIVE PrismaHolds(_, _)
PrismaHolds(where, row) ==
    \A k \in DOMAIN where :
        IF k = "OR"
        THEN \E i \in DOMAIN where[k] : PrismaHolds(where[k][i], row)
        ELSE \A op \in DOMAIN where[k] : Compare(op, row[k], where[k][op].items[1].v)

\* The comparison c is an entry of the `where`, at the top or inside an OR array.
RECURSIVE Represented(_, _)
Represented(c, where) ==
    \/ /\ Has(where, c.field)
       /\ where[c.field] = prisma_transformComparisonNode(c).value[c.field]
    \/ /\ Has(where, "OR")
       /\ \E i \in DOMAIN where["OR"] : Represented(c, where["OR"][i])

\* C7: the Prisma compiler preserves boolean semantics: for every AST built
\* from AND/OR over comparisons, the `where` it returns (the conjunction of
\* its field entries and of the disjunction of its OR array) holds of exactly
\* the rows the AST holds of, and every comparison of the AST is still an
\* entry of the output.
C7_PrismaPreservesSemantics ==
    (pc = "prisma" /\ ~HasNot(ast) /\ ComparisonsOf(ast) \subseteq BooleanLeaves) =>
        /\ result = NoError
        /\ \A row \in Rows : PrismaHolds(filter["where"], row) <=> Holds(ast, row)
        /\ \A c \in ComparisonsOf(ast) : Represented(c, filter["where"])

EmptyList(c) == c.op \in {"in", "notIn"} /\ c.value.isArray /\ Len(c.value.items) = 0

\* C8: every backend compiler returns a filter for a well-shaped comparison
\* with each of the twelve operators; the only call that raises is the SQL
\* backend on in/notIn with an empty list.
C8_EveryOperatorEveryBackend ==
    (pc \in Backends /\ isComparisonNode(ast) /\ WellShaped(ast.op, ast.value)) =>
        (result # NoError => (pc = "sql" /\ EmptyList(ast)))

\* C9: compiling a Not node succeeds in the Prisma and TypeORM backends and
\* wraps the compiled child: toPrismaFilter returns {where: {NOT: child}} and
\* toTypeORMFilter returns {where: {__qast_not__: child}}.
C9_NotWrapsChild ==
    /\ (pc = "prisma" /\ isNotNode(ast)) =>
            /\ result = NoError
            /\ LET child == prisma_transformNode(ast.child)
               IN  child.ok /\ filter = Object("where", Object("NOT", child.value))
    /\ (pc = "typeorm" /\ isNotNode(ast)) =>
            /\ result = NoError
            /\ LET child == typeorm_transformNode(ast.child)
               IN  child.ok /\ filter = Object("where", Prim(Object("__qast_not__", child.value)))

\* The values a comparison binds, in order: none for eq/ne with null, the
\* elements of a list, the bounds of a between that are present (lower
\* first), the wildcard pattern of a LIKE, the value itself otherwise.
BoundValues(c) ==
    CASE c.op \in {"eq", "ne"} ->
            IF ~c.value.isArray /\ isNull(c.value.items[1]) THEN <<>> ELSE <<c.value>>
      [] c.op \in {"gt", "gte", "lt", "lte"} -> <<c.value>>
      [] c.op \in {"in", "notIn"} -> [i \in 1..Len(c.value.items) |-> Prim(c.value.items[i])]
      [] c.op = "contains" -> <<Prim(Str(<<"%">> \o c.value.items[1].v \o <<"%">>))>>
      [] c.op = "startsWith" -> <<Prim(Str(c.value.items[1].v \o <<"%">>))>>
      [] c.op = "endsWith" -> <<Prim(Str(<<"%">> \o c.value.items[1].v))>>
      [] c.op = "between" ->
            [i \in 1..Len(SelectSeq(c.value.items, LAMBDA b : ~isNull(b))) |->
                Prim(SelectSeq(c.value.items, LAMBDA b : ~isNull(b))[i])]

RECURSIVE BoundValuesOf(_)
BoundValuesOf(leaves) ==
    IF leaves = <<>> THEN <<>>
    ELSE BoundValues(Head(leaves)) \o BoundValuesOf(Tail(leaves))

PlaceholdersOf(text) == SelectSeq(text, LAMBDA p : p.kind = "placeholder")

\* C10: the text toSqlFilter returns holds the placeholders $1, $2, ..., $n
\* in this order, each once, with n = params.length; params[i-1] is the
\* value bound at $i, in the left-to-right order of the AST's comparisons
\* (list elements in list order, between lower before upper); no piece of
\* the text is a value.  The call raises only for in/notIn with an empty
\* list.
C10_PlaceholdersInOrder ==
    pc = "sql" =>
        IF result = NoError
        THEN /\ LET ph == PlaceholdersOf(filter.text)
                IN  /\ Len(ph) = Len(filter.params)
                    /\ \A i \in 1..Len(ph) : ph[i].s = "$" \o ToString(i)
             /\ filter.params = BoundValuesOf(LeavesOf(ast))
             /\ \A i \in 1..Len(filter.text) : filter.text[i].kind # "value"
        ELSE \E c \in ComparisonsOf(ast) : EmptyList(c)

\* `name contains "Jo" or f in [1,2]` has been compiled: three placeholders,
\* the pattern bound first.
C10_Witness ==
    /\ pc = "sql"
    /\ ast = LogicalNode("OR",
                ComparisonNode("name", "contains", Prim(Str(<<"J", "o">>))),
                ComparisonNode("f", "in", List(<<Num(1), Num(2)>>)))
    /\ result = NoError
    /\ filter.params = <<Prim(Str(<<"%", "J", "o", "%">>)), Prim(Num(1)), Prim(Num(2))>>
    /\ PlaceholdersOf(filter.text)
         = <<Piece("placeholder", "$1"), Piece("placeholder", "$2"), Piece("placeholder", "$3")>>

(***************************************************************************)
(* Complexity guard (parser/complexity.ts).                                *)
(***************************************************************************)
QueryComplexityError(msg) == [name |-> "QueryComplexityError", message |-> msg]
TokenizationError(msg, position) ==
    [name |-> "TokenizationError", message |-> msg, position |-> position]

Max(a, b) == IF a > b THEN a ELSE b

ComplexityStats(d, n, c) == [depth |-> d, nodes |-> n, clauses |-> c]

notStats_sameNodes(node, childStats) ==
    ComplexityStats(childStats.depth + 1, childStats.nodes, childStats.clauses)

\* The stats of a Not node from its child's.
notStats(node, childStats) ==
    ComplexityStats(childStats.depth + 1, childStats.nodes + 1, childStats.clauses)

RECURSIVE calculateStats(_)
calculateStats(node) ==
    IF isComparisonNode(node) THEN ComplexityStats(1, 1, 1)
    ELSE IF isNotNode(node) THEN notStats(node, calculateStats(node.child))
    ELSE IF isLogicalNode(node)
    THEN LET leftStats == calculateStats(node.left)
             rightStats == calculateStats(node.right)
         IN  ComplexityStats(Max(leftStats.depth, rightStats.depth) + 1,
                             leftStats.nodes + rightStats.nodes + 1,
                             leftStats.clauses + rightStats.clauses)
    ELSE ComplexityStats(0, 0, 0)

\* limit !== undefined && measured > limit
exceeds_orEqual(measured, limit) == limit.given /\ measured >= limit.value

exceeds(measured, limit) == limit.given /\ measured > limit.value

enforceQueryComplexity(a, limits) ==
    LET stats == calculateStats(a)
    IN  IF exceeds(stats.depth, limits.maxDepth)
        THEN QueryComplexityError("Query exceeds maximum depth of "
                \o ToString(limits.maxDepth.value)
                \o " (received depth " \o ToString(stats.depth) \o ")")
        ELSE IF exceeds(stats.nodes, limits.maxNodes)
        THEN QueryComplexityError("Query exceeds maximum node count of "
                \o ToString(limits.maxNodes.value)
                \o " (received " \o ToString(stats.nodes) \o ")")
        ELSE IF exceeds(stats.clauses, limits.maxClauses)
        THEN QueryComplexityError("Query exceeds maximum clause count of "
                \o ToString(limits.maxClauses.value)
                \o " (received " \o ToString(stats.clauses) \o ")")
        ELSE NoError

(***************************************************************************)
(* parseQuery (index.ts), one action per stage.  tokenize() either yields  *)
(* a stream ending in EOF or raises TokenizationError; a query on which it *)
(* raises is carried as the empty stream NoTokens (no stream tokenize()    *)
(* returns is empty).                                                      *)
(*   pc: "query" -> "parsed" -> "guarded" -> ("validated" ->) "returned",  *)
(*   or "raised" from any stage.                                           *)
(***************************************************************************)
NoTokens == <<>>

\* parseQueryString: tokenize, then parse.
parseQueryString(toks) ==
    IF toks = NoTokens THEN Raised(TokenizationError("Unexpected character", 0))
    ELSE parse(toks)

ParseQueryString ==
    /\ pc = "query"
    /\ LET r == parseQueryString(tokens)
       IN  /\ ast' = (IF r.ok THEN r.node ELSE NoAst)
           /\ result' = (IF r.ok THEN NoError ELSE r.error)
           /\ pc' = (IF r.ok THEN "parsed" ELSE "raised")
    /\ UNCHANGED <<tokens, whitelist, filter, options, calls, operators, finalized, query, charPosition>>

\* if (options) { if (typeof maxDepth === 'number' || ...) enforceQueryComplexity(...) }
limitsConfigured(o) ==
    o.given /\ (o.maxDepth.given \/ o.maxNodes.given \/ o.maxClauses.given)

ComplexityGuard ==
    /\ pc = "parsed"
    /\ LET e == IF limitsConfigured(options)
                THEN enforceQueryComplexity(ast,
                        [maxDepth |-> options.maxDepth, maxNodes |-> options.maxNodes,
                         maxClauses |-> options.maxClauses])
                ELSE NoError
       IN  /\ result' = e
           /\ pc' = (IF e = NoError THEN "guarded" ELSE "raised")
           \* the AST is returned by no raising call
           /\ ast' = (IF e = NoError THEN ast ELSE NoAst)
    /\ UNCHANGED <<tokens, whitelist, filter, options, calls, operators, finalized, query, charPosition>>

\* options && options.validate !== false, and some whitelist field is truthy
\* (an array, even an empty one, is truthy).
validatorEnabled_ignoringFlag(o) ==
    /\ o.given
    /\ (o.allowedFields.given \/ o.allowedOperators.given \/ o.fieldTypes.given)

validatorEnabled(o) ==
    /\ o.given
    /\ ~(o.validate.given /\ o.validate.value = FALSE)
    /\ (o.allowedFields.given \/ o.allowedOperators.given \/ o.fieldTypes.given)

Validator ==
    /\ pc = "guarded"
    /\ validatorEnabled(options)
    /\ LET wl == WhitelistOptions(options.allowedFields, options.allowedOperators)
           e == validateQuery(ast, wl)
       IN  /\ whitelist' = wl
           /\ result' = e
           /\ pc' = (IF e = NoError THEN "validated" ELSE "raised")
           /\ ast' = (IF e = NoError THEN ast ELSE NoAst)
    /\ UNCHANGED <<tokens, filter, options, calls, operators, finalized, query, charPosition>>

\* return ast
Return ==
    /\ \/ pc = "guarded" /\ ~validatorEnabled(options)
       \/ pc = "validated"
    /\ pc' = "returned"
    /\ UNCHANGED <<tokens, ast, whitelist, result, filter, options, calls, operators, finalized, query, charPosition>>

(***************************************************************************)
(* SpecQuery: parseQuery over the expressions of up to MaxQueryLexemes     *)
(* lexemes over two comparisons, a few malformed queries and one query     *)
(* that does not tokenize, under every combination of options: each        *)
(* whitelist undefined or given, validate undefined, true or false, each   *)
(* limit undefined or 1..MaxLimit.                                         *)
(***************************************************************************)
MaxQueryLexemes == 3
MaxLimit == 2

QueryLeaves ==
    {Comparison("age", "gt", Prim(Num(1))),
     Comparison("name", "in", List(<<Num(1)>>))}

MalformedQueries ==
    {<<>>,
     <<IDENT("age")>>,
     <<IDENT("age"), OPER("gt")>>,
     <<PAREN_OPEN>> \o Comparison("age", "gt", Prim(Num(1))),
     Comparison("age", "gt", Prim(Num(1))) \o <<LOGICAL_AND>>,
     Comparison("age", "gt", Prim(Num(1))) \o Comparison("age", "gt", Prim(Num(1))),
     Comparison("name", "in", Prim(Num(1)))}

QueryStreams ==
    {TokenStream(q) : q \in ExprsUpTo(QueryLeaves, MaxQueryLexemes) \cup MalformedQueries}
    \cup {NoTokens}

Limits == {Omitted} \cup {Limit(n) : n \in 1..MaxLimit}

OptionsSet ==
    {NoOptions}
    \cup {ParseOptions(F, O, v, d, n, c) :
            F \in {Absent, Given({}), Given({"age"})},
            O \in {Absent, Given({"gt"})},
            v \in {ValidateOmitted, ValidateFlag(TRUE), ValidateFlag(FALSE)},
            d \in Limits, n \in Limits, c \in Limits}

InitQuery ==
    /\ tokens \in QueryStreams
    /\ ast = NoAst
    /\ whitelist = WhitelistOptions(Absent, Absent)
    /\ pc = "query"
    /\ result = NoError
    /\ filter = NoFilter
    /\ options \in OptionsSet
    /\ calls = NoCalls
    /\ operators = NoOperators
    /\ finalized = NoFilter
    /\ query = NoQuery
    /\ charPosition = 0

NextQuery ==
    \/ ParseQueryString
    \/ ComplexityGuard
    \/ Validator
    \/ Return

SpecQuery == InitQuery /\ [][NextQuery]_vars

\* A query is syntactically valid when it tokenizes and its tokens before
\* end-of-input are one expression of the grammar.
ValidQuery == tokens # NoTokens /\ IsExpr(KindsOf(tokens))

\* The tree of a valid query.
QueryAst == GroupingOf(KindsOf(tokens))

\* Some configured limit is below what the query's tree measures.
ExceedsLimit ==
    /\ options.given
    /\ \/ options.maxDepth.given /\ calculateStats(QueryAst).depth > options.maxDepth.value
       \/ options.maxNodes.given /\ NodeCount(QueryAst) > options.maxNodes.value
       \/ options.maxClauses.given /\ Len(LeavesOf(QueryAst)) > options.maxClauses.value

ViolatesWhitelist ==
    \E c \in ComparisonsOf(QueryAst) :
        OutsideWhitelist(c, WhitelistOptions(options.allowedFields, options.allowedOperators))

Finished == pc \in {"returned", "raised"}

\* C11: parseQuery runs tokenize/parse, then the complexity guard, then the
\* validator: an invalid query raises TokenizationError or ParseError whatever
\* the options; a query exceeding a configured limit raises
\* QueryComplexityError, also when it violates the whitelist and also with
\* validate:false; with validate:false no ValidationError is ever raised; and
\* with validate omitted and a whitelist supplied the guard is followed by
\* the validator, never by the return.
C11_StageOrder ==
    /\ [](/\ (Finished /\ ~ValidQuery) =>
                (pc = "raised" /\ result.name \in {"TokenizationError", "ParseError"})
          /\ (Finished /\ ValidQuery /\ ExceedsLimit) =>
                (pc = "raised" /\ result.name = "QueryComplexityError")
          /\ (options.validate.given /\ ~options.validate.value) =>
                result.name # "ValidationError")
    /\ [][/\ pc' = "parsed" => pc = "query"
          /\ pc' = "guarded" => pc = "parsed"
          /\ pc' = "validated" => pc = "guarded"
          /\ (/\ pc = "guarded"
              /\ ~options.validate.given
              /\ (options.allowedFields.given \/ options.allowedOperators.given))
                => (/\ pc' \in {"validated", "raised"}
                    /\ whitelist' = WhitelistOptions(options.allowedFields,
                                                     options.allowedOperators))]_vars

\* `name in [1] and age gt 1` under {allowedFields: ['age'], maxClauses: 1}
\* has raised QueryComplexityError.
C11_Witness ==
    /\ pc = "raised"
    /\ tokens = TokenStream(Comparison("name", "in", List(<<Num(1)>>)) \o <<LOGICAL_AND>>
                            \o Comparison("age", "gt", Prim(Num(1))))
    /\ options = ParseOptions(Given({"age"}), Absent, ValidateOmitted,
                              Omitted, Omitted, Limit(1))
    /\ ViolatesWhitelist
    /\ result.name = "QueryComplexityError"

\* C12: each complexity limit rejects only a measured value strictly greater
\* than the limit: a valid query raises QueryComplexityError exactly when its
\* depth, node count or clause count is above a configured limit (a value
\* equal to the limit is accepted); with maxDepth:1 alone a single comparison
\* is accepted and every deeper query is rejected.
C12_StrictLimits ==
    (Finished /\ ValidQuery /\ options.given) =>
        /\ (result.name = "QueryComplexityError") <=> ExceedsLimit
        /\ (options.maxDepth = Limit(1) /\ ~options.maxNodes.given /\ ~options.maxClauses.given)
                => ((result.name = "QueryComplexityError") <=> ~isComparisonNode(QueryAst))

\* `not age gt 1` (depth 2, 2 nodes, 1 clause) under {maxDepth: 2, maxNodes: 2,
\* maxClauses: 1} has been returned.
C12_Witness ==
    /\ pc = "returned"
    /\ tokens = TokenStream(<<LOGICAL_NOT>> \o Comparison("age", "gt", Prim(Num(1))))
    /\ options = ParseOptions(Absent, Absent, ValidateOmitted, Limit(2), Limit(2), Limit(1))
    /\ ast = NotNode(ComparisonNode("age", "gt", Prim(Num(1))))

\* C13: the complexity metrics obey exact increments: appending
\* ` and field op value` to a parseable query gives a tree with 2 more nodes
\* and 1 more clause; Not{child: e} has depth(e)+1, nodes(e)+1 and the clauses
\* of e; a comparison measures (1, 1, 1) and a logical node has depth
\* max(left, right)+1.
C13_ExactIncrements ==
    (pc \in {"parsed", "guarded"} /\ ast # NoAst) =>
        LET s == calculateStats(ast)
        IN  /\ \A c \in QueryLeaves :
                LET r == parse(TokenStream(KindsOf(tokens) \o <<LOGICAL_AND>> \o c))
                IN  /\ r.ok
                    /\ calculateStats(r.node).nodes = s.nodes + 2
                    /\ calculateStats(r.node).clauses = s.clauses + 1
            /\ calculateStats(NotNode(ast))
                 = ComplexityStats(s.depth + 1, s.nodes + 1, s.clauses)
            /\ isComparisonNode(ast) => s = ComplexityStats(1, 1, 1)
            /\ isLogicalNode(ast) =>
                 s.depth = Max(calculateStats(ast.left).depth,
                               calculateStats(ast.right).depth) + 1
            /\ isNotNode(ast) =>
                 s = ComplexityStats(calculateStats(ast.child).depth + 1,
                                     NodeCount(ast.child) + 1,
                                     Len(LeavesOf(ast.child)))

\* `not age gt 1` has passed the guard under {maxNodes: 2}.
C13_Witness ==
    /\ pc = "guarded"
    /\ options.maxNodes = Limit(2)
    /\ ast = NotNode(ComparisonNode("age", "gt", Prim(Num(1))))
    /\ result = NoError

\* The operands of an OR chain, left to right, however it is parenthesised.
RECURSIVE OrOperands(_)
OrOperands(node) ==
    IF node.type = "OR" THEN OrOperands(node.left) \o OrOperands(node.right)
    ELSE <<node>>

\* C14: toPrismaFilter flattens OR chains: for an OR chain of n >= 2 operands
\* none of which is itself an OR, however parenthesised, the output is
\* {where: {OR: [...]}} whose array holds exactly the n compiled operands in
\* source order, none of them a bare {OR: [...]} wrapper.
C14_OrChainsFlattened ==
    (/\ pc = "prisma"
     /\ ast.type = "OR"
     /\ ~HasNot(ast)
     /\ ComparisonsOf(ast) \subseteq BooleanLeaves) =>
        /\ result = NoError
        /\ DOMAIN filter["where"] = {"OR"}
        /\ LET operands == OrOperands(ast)
               array == filter["where"]["OR"]
           IN  /\ Len(array) = Len(operands)
               /\ \A i \in 1..Len(operands) :
                    /\ DOMAIN array[i] # {"OR"}
                    /\ array[i] = prisma_transformNode(operands[i]).value

\* C15: the Prisma AND-merge keeps OR keys: for AND(l, r) the output holds
\* every non-OR key of the compiled l and of the compiled r; if exactly one
\* side carries an OR array the output's OR is that array unchanged, and if
\* both carry one it is the left array followed by the right array.
C15_MergeKeepsOr ==
    (pc = "prisma" /\ ast.type = "AND" /\ result = NoError) =>
        LET l == prisma_transformNode(ast.left).value
            r == prisma_transformNode(ast.right).value
            where == filter["where"]
        IN  /\ (DOMAIN l \cup DOMAIN r) \ {"OR"} \subseteq DOMAIN where
            /\ (Has(l, "OR") /\ ~Has(r, "OR")) => (Has(where, "OR") /\ where["OR"] = l["OR"])
            /\ (~Has(l, "OR") /\ Has(r, "OR")) => (Has(where, "OR") /\ where["OR"] = r["OR"])
            /\ (Has(l, "OR") /\ Has(r, "OR"))
                    => (Has(where, "OR") /\ where["OR"] = l["OR"] \o r["OR"])

\* `(f gt 1 or f lt 5) and (g eq 1 or f gt 1)` has been compiled: the OR
\* array holds the four comparisons.
C15_Witness ==
    /\ pc = "prisma"
    /\ ast = AND(OR(ComparisonNode("f", "gt", Prim(Num(1))),
                    ComparisonNode("f", "lt", Prim(Num(5)))),
                 OR(ComparisonNode("g", "eq", Prim(Num(1))),
                    ComparisonNode("f", "gt", Prim(Num(1)))))
    /\ result = NoError
    /\ Len(filter["where"]["OR"]) = 4

\* The operands of a chain of `kind` ("AND" or "OR"), left to right, however
\* it is parenthesised.
RECURSIVE ChainOperands(_, _)
ChainOperands(node, kind) ==
    IF node.type = kind
    THEN ChainOperands(node.left, kind) \o ChainOperands(node.right, kind)
    ELSE <<node>>

\* No and-group of a Sequelize filter directly holds an and-group, no
\* or-group an or-group, at any depth.
RECURSIVE SequelizeFlat(_)
SequelizeFlat(f) ==
    IF logicalIs(f, "not") THEN SequelizeFlat(f["condition"])
    ELSE IF Has(f, "__qast_logical__")
    THEN \A i \in DOMAIN f["conditions"] :
            /\ \A kind \in {"and", "or"} :
                    logicalIs(f, kind) => ~logicalIs(f["conditions"][i], kind)
            /\ SequelizeFlat(f["conditions"][i])
    ELSE TRUE

\* The same for the $and / $or groups of a Mongo filter ($nor holds the
\* negated child).
RECURSIVE MongoFlat(_)
MongoFlat(f) ==
    IF Has(f, "$nor") THEN MongoFlat(f["$nor"][1])
    ELSE IF Has(f, "$and")
    THEN \A i \in DOMAIN f["$and"] : ~Has(f["$and"][i], "$and") /\ MongoFlat(f["$and"][i])
    ELSE IF Has(f, "$or")
    THEN \A i \in DOMAIN f["$or"] : ~Has(f["$or"][i], "$or") /\ MongoFlat(f["$or"][i])
    ELSE TRUE

\* C16: in the Sequelize and Mongo outputs same-kind groups are flattened and
\* nothing is lost: no and-group directly contains an and-group and no
\* or-group an or-group; the group compiled from a chain of n same-kind
\* operands holds exactly the n compiled operands in source order.
C16_GroupsFlattened ==
    /\ pc = "sequelize" =>
        /\ result = NoError
        /\ SequelizeFlat(filter)
        /\ isLogicalNode(ast) =>
            LET operands == ChainOperands(ast, ast.type)
            IN  /\ logicalIs(filter, IF ast.type = "AND" THEN "and" ELSE "or")
                /\ Len(filter["conditions"]) = Len(operands)
                /\ \A i \in 1..Len(operands) :
                        filter["conditions"][i] = sequelize_transformNode(operands[i]).value
    /\ pc = "mongo" =>
        /\ result = NoError
        /\ MongoFlat(filter)
        /\ isLogicalNode(ast) =>
            LET operands == ChainOperands(ast, ast.type)
                operator == IF ast.type = "AND" THEN "$and" ELSE "$or"
            IN  /\ DOMAIN filter = {operator}
                /\ Len(filter[operator]) = Len(operands)
                /\ \A i \in 1..Len(operands) :
                        filter[operator][i] = mongo_transformNode(operands[i]).value

\* `f gt 1 or (f lt 5 or g eq 1)` has been compiled by the Mongo backend to
\* one $or of three members.
C16_Witness ==
    /\ pc = "mongo"
    /\ ast = OR(ComparisonNode("f", "gt", Prim(Num(1))),
                OR(ComparisonNode("f", "lt", Prim(Num(5))),
                   ComparisonNode("g", "eq", Prim(Num(1)))))
    /\ Len(filter["$or"]) = 3

\* C17: an empty list is accepted by the parser but rejected by the SQL
\* compiler: `f in []` and `f notIn []` parse to a comparison with an empty
\* list, and toSqlFilter of an AST holding such a comparison (at the root or
\* under AND/OR/NOT) raises an error and returns no {text, params}.
C17_EmptyListRejectedBySql ==
    /\ \A o \in {"in", "notIn"} :
         LET r == parse(TokenStream(Comparison("f", o, List(<<>>))))
         IN  r.ok /\ r.node = ComparisonNode("f", o, List(<<>>))
    /\ (pc = "sql" /\ \E c \in ComparisonsOf(ast) : EmptyList(c)) =>
            (result.name = "Error" /\ filter = NoFilter)

\* `f gt 1 and f notIn []` has raised in the SQL compiler.
C17_Witness ==
    /\ pc = "sql"
    /\ ast = AND(ComparisonNode("f", "gt", Prim(Num(1))),
                 ComparisonNode("f", "notIn", List(<<>>)))
    /\ result.name = "Error"
    /\ filter = NoFilter

\* The placeholder piece $n.
Dollar(n) == Piece("placeholder", "$" \o ToString(n))

\* C18: the SQL compiler never binds a null for eq, ne or a missing between
\* bound: `eq null` compiles to IS NULL and `ne null` to IS NOT NULL with no
\* parameter; between with both bounds compiles to BETWEEN with the two
\* parameters lo then hi, with one bound null to a single >= (lower only) or
\* <= (upper only) with one parameter, and with both null to the tautology
\* 1 = 1 with no parameter.
C18_NoNullBound ==
    (pc = "sql" /\ result = NoError) =>
        /\ \A i \in 1..Len(filter.params) :
                filter.params[i].isArray \/ ~isNull(filter.params[i].items[1])
        /\ (isComparisonNode(ast) /\ ast.op \in {"eq", "ne", "between"}) =>
            LET column == quoteIdentifier(ast.field)
                items == ast.value.items
            IN  CASE ast.op = "eq" /\ isNull(items[1]) ->
                        filter = [text |-> <<column, Sql(" IS NULL")>>, params |-> <<>>]
                  [] ast.op = "ne" /\ isNull(items[1]) ->
                        filter = [text |-> <<column, Sql(" IS NOT NULL")>>, params |-> <<>>]
                  [] ast.op = "between" /\ ~isNull(items[1]) /\ ~isNull(items[2]) ->
                        filter = [text |-> <<column, Sql(" BETWEEN "), Dollar(1),
                                             Sql(" AND "), Dollar(2)>>,
                                  params |-> <<Prim(items[1]), Prim(items[2])>>]
                  [] ast.op = "between" /\ ~isNull(items[1]) /\ isNull(items[2]) ->
                        filter = [text |-> <<column, Sql(" >= "), Dollar(1)>>,
                                  params |-> <<Prim(items[1])>>]
                  [] ast.op = "between" /\ isNull(items[1]) /\ ~isNull(items[2]) ->
                        filter = [text |-> <<column, Sql(" <= "), Dollar(1)>>,
                                  params |-> <<Prim(items[2])>>]
                  [] ast.op = "between" /\ isNull(items[1]) /\ isNull(items[2]) ->
                        filter = [text |-> <<Sql("1 = 1")>>, params |-> <<>>]
                  [] OTHER -> Len(filter.params) = 1

\* `f between [null, 5]` has been compiled to "f" <= $1 with the one parameter 5.
C18_Witness ==
    /\ pc = "sql"
    /\ ast = ComparisonNode("f", "between", List(<<Null, Num(5)>>))
    /\ filter = [text |-> <<quoteIdentifier("f"), Sql(" <= "), Dollar(1)>>,
                 params |-> <<Prim(Num(5))>>]

(***************************************************************************)
(* SpecSqlCalls: a sequence of up to MaxCalls calls of toSqlFilter and      *)
(* toDrizzleFilter, each on an AST of SqlCallAsts (comparisons that bind    *)
(* zero, one and two values, an empty list that makes the call raise, and   *)
(* trees over them).  `calls` records each call with what it returned or    *)
(* raised.                                                                 *)
(***************************************************************************)
MaxCalls == 3

toDrizzleFilter(a) == toSqlFilter(a)

SqlCallAsts ==
    LET gt == ComparisonNode("f", "gt", Prim(Num(1)))
        emptyIn == ComparisonNode("f", "in", List(<<>>))
        in == ComparisonNode("f", "in", List(<<Num(1), Num(2)>>))
    IN  { gt,
          ComparisonNode("f", "eq", Prim(Null)),
          emptyIn,
          in,
          ComparisonNode("f", "between", List(<<Num(1), Null>>)),
          LogicalNode("OR", ComparisonNode("name", "contains", Prim(Str(<<"J", "o">>))), in),
          NotNode(LogicalNode("AND", gt, emptyIn)),
          LogicalNode("AND", gt, ComparisonNode("g", "eq", Prim(Num(1)))) }

InitSqlCalls ==
    /\ tokens = <<>>
    /\ ast = NoAst
    /\ whitelist = WhitelistOptions(Absent, Absent)
    /\ pc = "idle"
    /\ result = NoError
    /\ filter = NoFilter
    /\ options = NoOptions
    /\ calls = NoCalls
    /\ operators = NoOperators
    /\ finalized = NoFilter
    /\ query = NoQuery
    /\ charPosition = 0

\* One call of `api` on the AST a: `out` is what the call returned or raised.
Call(api, a, out) ==
    /\ Len(calls) < MaxCalls
    /\ calls' = Append(calls, [api |-> api, ast |-> a, out |-> out])
    /\ ast' = a
    /\ pc' = api
    /\ filter' = (IF out.ok THEN out.value ELSE NoFilter)
    /\ result' = (IF out.ok THEN NoError ELSE out.error)
    /\ UNCHANGED <<tokens, whitelist, options, operators, finalized, query, charPosition>>

ToSqlFilterCall_sharedParams ==
    \E a \in SqlCallAsts :
        LET previous == IF calls # NoCalls /\ calls[Len(calls)].out.ok
                        THEN calls[Len(calls)].out.value.params ELSE <<>>
            text == sql_transformNode(a, previous)
        IN  Call("toSqlFilter", a,
                 IF text.ok THEN Returned([text |-> text.text, params |-> text.params])
                 ELSE text)

ToSqlFilterCall == \E a \in SqlCallAsts : Call("toSqlFilter", a, toSqlFilter(a))

ToDrizzleFilterCall == \E a \in SqlCallAsts : Call("toDrizzleFilter", a, toDrizzleFilter(a))

NextSqlCalls ==
    \/ ToSqlFilterCall
    \/ ToDrizzleFilterCall

SpecSqlCalls == InitSqlCalls /\ [][NextSqlCalls]_vars

\* Two outcomes are the same return value or the same error.
SameOutcome(x, y) ==
    /\ x.ok = y.ok
    /\ x.ok => x.value = y.value
    /\ ~x.ok => x.error = y.error

\* C19: SQL compilation keeps no state between calls.  In any sequence of
\* toSqlFilter / toDrizzleFilter calls, every call on an AST has the outcome
\* of every other call on that AST, whichever of the two functions was
\* called and whatever was compiled or raised before it (the first call of
\* the sequence included); a returned filter numbers its placeholders from
\* $1 and its params are the values of that call's AST only; a call raises
\* exactly when its own AST has an empty in/notIn list.
C19_NoStateBetweenCalls ==
    \A i \in 1..Len(calls) :
        LET c == calls[i]
        IN  /\ \A j \in 1..Len(calls) :
                    calls[j].ast = c.ast => SameOutcome(calls[j].out, c.out)
            /\ c.out.ok <=> ~(\E x \in ComparisonsOf(c.ast) : EmptyList(x))
            /\ c.out.ok =>
                    /\ LET ph == PlaceholdersOf(c.out.value.text)
                       IN  /\ Len(ph) = Len(c.out.value.params)
                           /\ \A k \in 1..Len(ph) : ph[k] = Dollar(k)
                    /\ c.out.value.params = BoundValuesOf(LeavesOf(c.ast))

\* toSqlFilter has compiled `f in [1,2]`, a call on `f in []` has raised, and
\* toDrizzleFilter has then compiled `f in [1,2]` to the first call's result.
C19_Witness ==
    /\ Len(calls) = 3
    /\ calls[1].api = "toSqlFilter"
    /\ calls[1].ast = ComparisonNode("f", "in", List(<<Num(1), Num(2)>>))
    /\ ~calls[2].out.ok
    /\ calls[3].api = "toDrizzleFilter"
    /\ calls[3].ast = calls[1].ast
    /\ calls[3].out.ok
    /\ calls[3].out.value.params = <<Prim(Num(1)), Prim(Num(2))>>
    /\ PlaceholdersOf(calls[3].out.value.text) = <<Dollar(1), Dollar(2)>>

(***************************************************************************)
(* Finalizers (adapters/sequelize-helpers.ts, adapters/typeorm-helpers.ts). *)
(* An operator table is [given, entries]: given is FALSE when the caller    *)
(* passes no table, entries are the keys whose value is truthy.  The value  *)
(* a Sequelize table holds at `key` is written OpEntry(key); the result of  *)
(* calling the TypeORM function held at `name` is Applied(name, args).      *)
(***************************************************************************)
OperatorTable(entries) == [given |-> TRUE, entries |-> entries]

Undefined == Prim([t |-> "undefined", v |-> 0])

\* A primitive among the `where` values: Prim(scalar), the scalar being
\* [t, v], where a condition object is Prim(object) over its field names.
isPrimitive(x) == ~x.isArray /\ DOMAIN x.items[1] = {"t", "v"}

\* The truthiness of what a property holds: an object or array is truthy, a
\* primitive is unless it is 0, '', false or null.
truthy(x) ==
    IF ~isPrimitive(x) THEN TRUE
    ELSE LET scalar == x.items[1]
         IN  CASE scalar.t = "number" -> scalar.v # 0
               [] scalar.t = "string" -> scalar.v # <<>>
               [] scalar.t = "boolean" -> scalar.v
               [] OTHER -> FALSE

OpEntry(key) == "Op." \o key

finalizeSequelize_getOp_unchecked(Op, key) == Returned(OpEntry(key))

finalizeSequelize_getOp(Op, key) ==
    IF key \in Op.entries THEN Returned(OpEntry(key))
    ELSE Raised(CompileError("Sequelize Op." \o key \o " is required but was not provided."))

RECURSIVE finalizeSequelize_transformNode(_, _)
RECURSIVE finalizeSequelize_map(_, _)

finalizeSequelize_transformValue(value, Op) ==
    IF Has(value, "__qast_operator__")
    THEN LET operand == value["value"]
             operator == value["__qast_operator__"]
             key == IF operator \in {"contains", "startsWith", "endsWith"} THEN "like"
                    ELSE operator
             payload == CASE operator = "contains" -> Like(<<"%">>, operand, <<"%">>)
                          [] operator = "startsWith" -> Like(<<>>, operand, <<"%">>)
                          [] operator = "endsWith" -> Like(<<"%">>, operand, <<>>)
                          [] OTHER -> operand
         IN  IF operator \in {"ne", "gt", "gte", "lt", "lte", "in", "notIn",
                              "contains", "startsWith", "endsWith", "between"}
             THEN LET op == finalizeSequelize_getOp(Op, key)
                  IN  IF op.ok THEN Returned(Object(op.value, payload)) ELSE op
             ELSE Returned(value)
    ELSE IF Has(value, "__qast_logical__")
    THEN finalizeSequelize_transformNode(value, Op)
    ELSE Returned(value)

\* nodes.map(transformNode): the first throw ends the map.
finalizeSequelize_map(nodes, Op) ==
    IF nodes = <<>> THEN Returned(<<>>)
    ELSE LET first == finalizeSequelize_transformNode(Head(nodes), Op)
         IN  IF ~first.ok THEN first
             ELSE LET rest == finalizeSequelize_map(Tail(nodes), Op)
                  IN  IF ~rest.ok THEN rest
                      ELSE Returned(<<first.value>> \o rest.value)

\* A node is a logical group or an object of fields; toSequelizeFilter never
\* yields an array as a node.  The computed key [getOp(k)] is evaluated
\* before the group's conditions.  Of several fields whose entries are
\* missing, the one the error names is the first in insertion order, which
\* an object here does not keep: the error is that of one of them.
finalizeSequelize_transformNode(node, Op) ==
    IF logicalIs(node, "and") \/ logicalIs(node, "or")
    THEN LET op == finalizeSequelize_getOp(Op, IF logicalIs(node, "and") THEN "and" ELSE "or")
         IN  IF ~op.ok THEN op
             ELSE IF ~Has(node, "conditions")
             THEN Raised(TypeError("Cannot read properties of undefined (reading 'map')"))
             ELSE LET conditions == finalizeSequelize_map(node["conditions"], Op)
                  IN  IF ~conditions.ok THEN conditions
                      ELSE Returned(Object(op.value, conditions.value))
    ELSE IF logicalIs(node, "not")
    THEN LET op == finalizeSequelize_getOp(Op, "not")
         IN  IF ~op.ok THEN op
             \* transformNode(undefined) returns undefined
             ELSE IF ~Has(node, "condition") THEN Returned(Object(op.value, Undefined))
             ELSE LET condition == finalizeSequelize_transformNode(node["condition"], Op)
                  IN  IF ~condition.ok THEN condition
                      ELSE Returned(Object(op.value, condition.value))
    ELSE LET outs == [k \in DOMAIN node |-> finalizeSequelize_transformValue(node[k], Op)]
         IN  IF \A k \in DOMAIN node : outs[k].ok
             THEN Returned([k \in DOMAIN node |-> outs[k].value])
             ELSE outs[CHOOSE k \in DOMAIN node : ~outs[k].ok]

finalizeSequelizeFilter(f, Op) ==
    IF ~Op.given
    THEN Raised(CompileError("Sequelize Op object is required to finalize the filter."))
    ELSE finalizeSequelize_transformNode(f, Op)

Applied(name, args) == [call |-> name, args |-> args]

\* operators[name] of an undefined table is a TypeError.
NoTableError == [name |-> "TypeError", message |-> "Cannot read properties of undefined"]

callOperator(ops, name, args) ==
    IF ~ops.given THEN Raised(NoTableError)
    ELSE IF name \notin ops.entries
    THEN Raised(CompileError("TypeORM operator '" \o name
                                \o "' is required to finalize this filter."))
    ELSE Returned(Applied(name, args))

likeOperator(ops, value) ==
    IF ~ops.given THEN Raised(NoTableError)
    ELSE IF "ILike" \in ops.entries THEN Returned(Applied("ILike", <<value>>))
    ELSE callOperator(ops, "Like", <<value>>)

convertOperator(ops, operator, operand) ==
    CASE operator = "ne" -> callOperator(ops, "Not", <<operand>>)
      [] operator = "gt" -> callOperator(ops, "MoreThan", <<operand>>)
      [] operator = "gte" -> callOperator(ops, "MoreThanOrEqual", <<operand>>)
      [] operator = "lt" -> callOperator(ops, "LessThan", <<operand>>)
      [] operator = "lte" -> callOperator(ops, "LessThanOrEqual", <<operand>>)
      [] operator = "in" -> callOperator(ops, "In", <<operand>>)
      [] operator = "notIn" ->
            LET in == callOperator(ops, "In", <<operand>>)
            IN  IF ~in.ok THEN in ELSE callOperator(ops, "Not", <<in.value>>)
      [] operator = "contains" -> likeOperator(ops, Like(<<"%">>, operand, <<"%">>))
      [] operator = "startsWith" -> likeOperator(ops, Like(<<>>, operand, <<"%">>))
      [] operator = "endsWith" -> likeOperator(ops, Like(<<"%">>, operand, <<>>))
      [] operator = "between" ->
            callOperator(ops, "Between", <<Prim(operand.items[1]), Prim(operand.items[2])>>)
      [] OTHER -> Returned(operand)

RECURSIVE finalizeTypeOrm_transformCondition(_, _)
RECURSIVE finalizeTypeOrm_transformObject(_, _)
RECURSIVE finalizeTypeOrm_map(_, _)
RECURSIVE applyNot(_, _)

\* A value is a QastValue (a primitive, or an array of primitives that
\* value.map(transformCondition) copies), an operator envelope, a NOT
\* envelope or a nested condition object.
finalizeTypeOrm_transformValue(value, ops) ==
    IF Has(value, "isArray") THEN Returned(value)
    ELSE IF Has(value, "__qast_operator__")
    THEN convertOperator(ops, value["__qast_operator__"], value["value"])
    ELSE IF Has(value, "__qast_not__") THEN applyNot(value["__qast_not__"], ops)
    ELSE finalizeTypeOrm_transformObject(value, ops)

\* transformCondition on a condition object.
finalizeTypeOrm_transformObject(condition, ops) ==
    IF Has(condition, "__qast_not__") /\ truthy(condition["__qast_not__"])
    THEN applyNot(condition["__qast_not__"], ops)
    ELSE LET outs == [k \in DOMAIN condition |->
                         finalizeTypeOrm_transformValue(condition[k], ops)]
         IN  IF \A k \in DOMAIN condition : outs[k].ok
             THEN Returned([k \in DOMAIN condition |-> outs[k].value])
             ELSE outs[CHOOSE k \in DOMAIN condition : ~outs[k].ok]

\* condition.map(transformCondition)
finalizeTypeOrm_map(conditions, ops) ==
    IF conditions = <<>> THEN Returned(<<>>)
    ELSE LET first == finalizeTypeOrm_transformObject(Head(conditions), ops)
         IN  IF ~first.ok THEN first
             ELSE LET rest == finalizeTypeOrm_map(Tail(conditions), ops)
                  IN  IF ~rest.ok THEN rest
                      ELSE Returned(<<first.value>> \o rest.value)

\* transformCondition on a `where`: Prim(object) or List(objects).
finalizeTypeOrm_transformCondition(condition, ops) ==
    IF isPrimitive(condition) THEN Returned(condition)
    ELSE IF condition.isArray
    THEN LET items == finalizeTypeOrm_map(condition.items, ops)
         IN  IF items.ok THEN Returned(List(items.value)) ELSE items
    ELSE LET object == finalizeTypeOrm_transformObject(condition.items[1], ops)
         IN  IF object.ok THEN Returned(Prim(object.value)) ELSE object

\* The target of a NOT envelope is a `where`; the result is an object.
applyNot_noArrayTest(target, ops) ==
    LET transformed == finalizeTypeOrm_transformCondition(target, ops)
    IN  IF ~transformed.ok THEN transformed
        ELSE callOperator(ops, "Not", <<transformed.value>>)

applyNot(target, ops) ==
    LET transformed == finalizeTypeOrm_transformCondition(target, ops)
    IN  IF ~transformed.ok THEN transformed
        ELSE IF transformed.value.isArray
        THEN Raised(CompileError(
                "Cannot convert NOT over OR conditions using finalizeTypeOrmFilter."))
        ELSE IF isPrimitive(transformed.value)
        THEN callOperator(ops, "Not", <<transformed.value>>)
        ELSE LET object == transformed.value.items[1]
                 outs == [k \in DOMAIN object |-> callOperator(ops, "Not", <<object[k]>>)]
             IN  IF \A k \in DOMAIN object : outs[k].ok
                 THEN Returned([k \in DOMAIN object |-> outs[k].value])
                 ELSE outs[CHOOSE k \in DOMAIN object : ~outs[k].ok]

finalizeTypeOrmFilter(f, ops) ==
    LET where == finalizeTypeOrm_transformCondition(f["where"], ops)
    IN  IF where.ok THEN Returned(Object("where", where.value)) ELSE where
(***************************************************************************)
(* SpecFinalize: a backend's envelope filter handed to its finalizer with   *)
(* an operator table.  The filter is what toSequelizeFilter or              *)
(* toTypeORMFilter returned for an AST, or a TypeORM filter written with    *)
(* the envelopes the finalizer converts.  The tables are those of the       *)
(* Sequelize keys and those of the TypeORM names that hold at most          *)
(* MaxEntries entries or lack at most one, and no table at all.             *)
(***************************************************************************)
MaxEntries == 2
MaxFinalizeNodes == 4

SequelizeKeys ==
    {"and", "or", "not", "ne", "gt", "gte", "lt", "lte", "in", "notIn", "like", "between"}

TypeOrmNames ==
    {"Equal", "Not", "MoreThan", "MoreThanOrEqual", "LessThan", "LessThanOrEqual",
     "In", "Between", "Like", "ILike"}

TablesOver(keys) ==
    {S \in SUBSET keys : Cardinality(S) <= MaxEntries \/ Cardinality(keys \ S) <= 1}

OperatorTables ==
    {NoOperators}
        \cup {OperatorTable(S) : S \in TablesOver(SequelizeKeys) \cup TablesOver(TypeOrmNames)}

\* One comparison on the field f for each of the twelve operators.
FinalizeLeaves ==
    {ComparisonNode("f", op, Prim(Num(1))) : op \in {"eq", "ne", "gt", "gte", "lt", "lte"}}
        \cup {ComparisonNode("f", op, List(<<Num(1), Num(2)>>)) : op \in {"in", "notIn"}}
        \cup {ComparisonNode("f", op, Prim(Str(<<"J", "o">>))) :
                op \in {"contains", "startsWith", "endsWith"}}
        \cup {ComparisonNode("f", "between", List(<<Num(1), Num(5)>>))}

FinalizeTreeLeaves ==
    { ComparisonNode("f", "gt", Prim(Num(1))),
      ComparisonNode("name", "contains", Prim(Str(<<"J", "o">>))),
      ComparisonNode("g", "eq", Prim(Num(1))),
      ComparisonNode("f", "notIn", List(<<Num(1), Num(2)>>)) }

FinalizeAsts == FinalizeLeaves \cup TreesUpTo(FinalizeTreeLeaves, MaxFinalizeNodes, TRUE)

\* { [field]: value } for eq, { [field]: { __qast_operator__, value } } otherwise.
Condition(c) ==
    Object(c.field, IF c.op = "eq" THEN c.value ELSE Envelope(c.op, c.value))

NotEnvelope(where) == Object("__qast_not__", where)

\* TypeORM filters written with envelopes: one condition, two conditions in
\* one object, an OR array of two objects, and NOT around an object, once
\* and twice.
TypeOrmObjects ==
    LET other == Condition(ComparisonNode("g", "lt", Prim(Num(5))))
    IN  {Condition(c) : c \in FinalizeLeaves}
            \cup {assign(Condition(c), other) : c \in FinalizeLeaves}

\* NOT around an OR array: at the top level, inside another NOT, as an
\* element of an OR array, and around the empty array.
NotOverOrWheres ==
    LET other == Condition(ComparisonNode("g", "lt", Prim(Num(5))))
        ors == {List(<<Condition(c), other>>) : c \in FinalizeLeaves}
    IN  {Prim(NotEnvelope(or)) : or \in ors}
            \cup {Prim(NotEnvelope(Prim(NotEnvelope(or)))) : or \in ors}
            \cup {List(<<NotEnvelope(or), other>>) : or \in ors}
            \cup {Prim(NotEnvelope(List(<<>>)))}

TypeOrmLiterals ==
    LET other == Condition(ComparisonNode("g", "lt", Prim(Num(5))))
        wheres == {Prim(o) : o \in TypeOrmObjects}
                    \cup {List(<<Condition(c), other>>) : c \in FinalizeLeaves}
                    \cup {Prim(NotEnvelope(Prim(o))) : o \in TypeOrmObjects}
                    \cup {Prim(NotEnvelope(Prim(NotEnvelope(Prim(o))))) : o \in TypeOrmObjects}
    IN  {Object("where", w) : w \in wheres \cup NotOverOrWheres}

InitFinalize ==
    /\ tokens = <<>>
    /\ whitelist = WhitelistOptions(Absent, Absent)
    /\ result = NoError
    /\ options = NoOptions
    /\ calls = NoCalls
    /\ operators \in OperatorTables
    /\ finalized = NoFilter
    /\ query = NoQuery
    /\ charPosition = 0
    /\ \/ /\ ast \in FinalizeAsts
          /\ pc = "built"
          /\ filter = NoFilter
       \/ /\ ast = NoAst
          /\ pc = "typeorm"
          /\ filter \in TypeOrmLiterals

\* One call of a finalizer on the filter: `out` is what it returned or raised.
Finalize(backend, finalizer, out) ==
    /\ pc = backend
    /\ result = NoError
    /\ pc' = finalizer
    /\ finalized' = (IF out.ok THEN out.value ELSE NoFilter)
    /\ result' = (IF out.ok THEN NoError ELSE out.error)
    /\ UNCHANGED <<tokens, ast, whitelist, filter, options, calls, operators, query, charPosition>>

FinalizeSequelizeFilter ==
    Finalize("sequelize", "finalizeSequelizeFilter", finalizeSequelizeFilter(filter, operators))

FinalizeTypeOrmFilter ==
    Finalize("typeorm", "finalizeTypeOrmFilter", finalizeTypeOrmFilter(filter, operators))

NextFinalize ==
    \/ ToSequelizeFilter
    \/ ToTypeORMFilter
    \/ FinalizeSequelizeFilter
    \/ FinalizeTypeOrmFilter

SpecFinalize == InitFinalize /\ [][NextFinalize]_vars

Markers == {"__qast_operator__", "__qast_logical__", "__qast_not__"}

\* The table key a comparison's envelope needs in finalizeSequelizeFilter.
SequelizeKeyOf(c) ==
    IF c.op = "eq" THEN {}
    ELSE IF c.op \in {"contains", "startsWith", "endsWith"} THEN {"like"}
    ELSE {c.op}

\* The table keys the Sequelize filter of an AST needs: one per kind of
\* logical group and one per operator envelope.
RECURSIVE SequelizeNeeds(_)
SequelizeNeeds(node) ==
    IF isComparisonNode(node) THEN SequelizeKeyOf(node)
    ELSE IF isNotNode(node) THEN {"not"} \cup SequelizeNeeds(node.child)
    ELSE {IF node.type = "AND" THEN "and" ELSE "or"}
            \cup SequelizeNeeds(node.left) \cup SequelizeNeeds(node.right)

\* The table has the function(s) an operator envelope needs.
EnvelopeServed(operator, entries) ==
    CASE operator = "ne" -> "Not" \in entries
      [] operator = "gt" -> "MoreThan" \in entries
      [] operator = "gte" -> "MoreThanOrEqual" \in entries
      [] operator = "lt" -> "LessThan" \in entries
      [] operator = "lte" -> "LessThanOrEqual" \in entries
      [] operator = "in" -> "In" \in entries
      [] operator = "notIn" -> {"Not", "In"} \subseteq entries
      [] operator \in {"contains", "startsWith", "endsWith"} ->
            "ILike" \in entries \/ "Like" \in entries
      [] operator = "between" -> "Between" \in entries

\* The table serves every envelope of a `where`.
RECURSIVE WhereServed(_, _)
WhereServed(where, entries) ==
    \A i \in 1..Len(where.items) :
        LET object == where.items[i]
        IN  IF Has(object, "__qast_not__")
            THEN "Not" \in entries /\ WhereServed(object["__qast_not__"], entries)
            ELSE \A k \in DOMAIN object :
                    Has(object[k], "__qast_operator__") =>
                        EnvelopeServed(object[k]["__qast_operator__"], entries)

\* No envelope marker is left in a finalized Sequelize filter.
RECURSIVE SequelizeMarkerFree(_)
SequelizeMarkerFree(node) ==
    /\ DOMAIN node \cap Markers = {}
    /\ \A k \in DOMAIN node :
            IF k \in {OpEntry("and"), OpEntry("or")}
            THEN \A i \in 1..Len(node[k]) : SequelizeMarkerFree(node[k][i])
            ELSE IF k = OpEntry("not") THEN SequelizeMarkerFree(node[k])
            ELSE DOMAIN node[k] \cap Markers = {}

\* No envelope marker is left in a finalized TypeORM `where`.
TypeOrmMarkerFree(where) ==
    \A i \in 1..Len(where.items) :
        LET object == where.items[i]
        IN  /\ DOMAIN object \cap Markers = {}
            /\ \A k \in DOMAIN object : DOMAIN object[k] \cap Markers = {}

\* The finalized form of one TypeORM condition { f: value or envelope }.
AppliedCondition(c) ==
    LET v == c.value
    IN  CASE c.op = "eq" -> v
          [] c.op = "ne" -> Applied("Not", <<v>>)
          [] c.op = "gt" -> Applied("MoreThan", <<v>>)
          [] c.op = "gte" -> Applied("MoreThanOrEqual", <<v>>)
          [] c.op = "lt" -> Applied("LessThan", <<v>>)
          [] c.op = "lte" -> Applied("LessThanOrEqual", <<v>>)
          [] c.op = "in" -> Applied("In", <<v>>)
          [] c.op = "notIn" -> Applied("Not", <<Applied("In", <<v>>)>>)
          [] c.op = "between" -> Applied("Between", <<Prim(v.items[1]), Prim(v.items[2])>>)
          [] c.op = "contains" ->
                Applied(IF "ILike" \in operators.entries THEN "ILike" ELSE "Like",
                        <<Prim(Str(<<"%">> \o v.items[1].v \o <<"%">>))>>)
          [] c.op = "startsWith" ->
                Applied(IF "ILike" \in operators.entries THEN "ILike" ELSE "Like",
                        <<Prim(Str(v.items[1].v \o <<"%">>))>>)
          [] c.op = "endsWith" ->
                Applied(IF "ILike" \in operators.entries THEN "ILike" ELSE "Like",
                        <<Prim(Str(<<"%">> \o v.items[1].v))>>)

\* A NOT envelope of the `where` wraps an OR array, directly or under
\* further NOT envelopes.
RECURSIVE NotOverOr(_)
NotOverOr(where) ==
    \E i \in 1..Len(where.items) :
        LET object == where.items[i]
        IN  /\ Has(object, "__qast_not__")
            /\ \/ object["__qast_not__"].isArray
               \/ NotOverOr(object["__qast_not__"])

\* C20: a finalizer fails rather than emitting a partial filter when the
\* operator table lacks an entry the filter needs.  finalizeSequelizeFilter
\* raises exactly when Op is absent or lacks the entry of a logical group or
\* operator envelope of the filter (contains/startsWith/endsWith need
\* `like`); finalizeTypeOrmFilter raises exactly when the map lacks the
\* function of an envelope of the filter; entries the filter does not use
\* need not be present (NOT around an OR array, which no table serves, is
\* set aside).  A raising call returns no filter; a returned
\* filter holds no envelope marker, and a single condition has become the
\* table's entry applied to the envelope's payload.
C20_MissingEntryRaises ==
    /\ pc = "finalizeSequelizeFilter" =>
        /\ result # NoError <=>
                (~operators.given \/ ~(SequelizeNeeds(ast) \subseteq operators.entries))
        /\ result # NoError => finalized = NoFilter
        /\ result = NoError =>
            /\ SequelizeMarkerFree(finalized)
            /\ (isComparisonNode(ast) /\ ast.op = "eq") =>
                    finalized = Object(ast.field, ast.value)
            /\ (isComparisonNode(ast) /\ ast.op \in {"ne", "gt", "gte", "lt", "lte",
                                                      "in", "notIn", "between"}) =>
                    finalized = Object(ast.field, Object(OpEntry(ast.op), ast.value))
            /\ (isComparisonNode(ast) /\ ast.op = "contains") =>
                    finalized = Object(ast.field, Object(OpEntry("like"),
                                    Prim(Str(<<"%">> \o ast.value.items[1].v \o <<"%">>))))
            /\ (isComparisonNode(ast) /\ ast.op = "startsWith") =>
                    finalized = Object(ast.field, Object(OpEntry("like"),
                                    Prim(Str(ast.value.items[1].v \o <<"%">>))))
            /\ (isComparisonNode(ast) /\ ast.op = "endsWith") =>
                    finalized = Object(ast.field, Object(OpEntry("like"),
                                    Prim(Str(<<"%">> \o ast.value.items[1].v))))
            /\ isLogicalNode(ast) =>
                    DOMAIN finalized = {OpEntry(IF ast.type = "AND" THEN "and" ELSE "or")}
            /\ isNotNode(ast) => DOMAIN finalized = {OpEntry("not")}
    /\ (pc = "finalizeTypeOrmFilter" /\ ~NotOverOr(filter["where"])) =>
        /\ result # NoError <=> ~WhereServed(filter["where"], operators.entries)
        /\ result # NoError => finalized = NoFilter
        /\ result = NoError =>
            /\ TypeOrmMarkerFree(finalized["where"])
            /\ \A c \in FinalizeLeaves :
                    filter = Object("where", Prim(Condition(c))) =>
                        finalized = Object("where", Prim(Object(c.field, AppliedCondition(c))))

\* `name contains "Jo"` has been finalized for Sequelize with a table that
\* holds `like` alone: { name: { [Op.like]: "%Jo%" } }.
C20_Witness ==
    /\ pc = "finalizeSequelizeFilter"
    /\ ast = ComparisonNode("name", "contains", Prim(Str(<<"J", "o">>)))
    /\ operators = OperatorTable({"like"})
    /\ finalized = Object("name", Object(OpEntry("like"),
                                         Prim(Str(<<"%", "J", "o", "%">>))))

NotOverOrError ==
    CompileError("Cannot convert NOT over OR conditions using finalizeTypeOrmFilter.")

\* C21: finalizeTypeOrmFilter raises whenever a `__qast_not__` envelope wraps
\* an OR array (a list of condition objects), at the top level or nested
\* inside another NOT, and returns no filter for such input; when the table
\* serves every envelope of the filter the error is the one that names NOT
\* over OR.
C21_NotOverOrRaises ==
    (pc = "finalizeTypeOrmFilter" /\ NotOverOr(filter["where"])) =>
        /\ result # NoError
        /\ finalized = NoFilter
        /\ WhereServed(filter["where"], operators.entries) => result = NotOverOrError

\* NOT around NOT around the OR array [{f: gt 1}, {g: lt 5}] has been handed
\* to finalizeTypeOrmFilter with the full table, and the call has raised.
C21_Witness ==
    /\ pc = "finalizeTypeOrmFilter"
    /\ operators = OperatorTable(TypeOrmNames)
    /\ filter = Object("where", Prim(NotEnvelope(Prim(NotEnvelope(
                    List(<<Condition(ComparisonNode("f", "gt", Prim(Num(1)))),
                           Condition(ComparisonNode("g", "lt", Prim(Num(5))))>>))))))
    /\ result = NotOverOrError
    /\ finalized = NoFilter

(***************************************************************************)
(* Tokenizer (parser/tokenizer.ts).  The query is a sequence of            *)
(* characters; this.position counts from 0 and this.currentChar is the     *)
(* character at it, NoChar (null) past the end.  Each reader takes the     *)
(* query and the position it starts at and returns what it read with the   *)
(* position after it, or the error raised.                                 *)
(***************************************************************************)
NoChar == ""

currentChar(input, p) == IF p < Len(input) THEN input[p + 1] ELSE NoChar

\* this.input.substring(from, to)
substring(input, from, to) ==
    SubSeq(input, from + 1, IF to < Len(input) THEN to ELSE Len(input))

LowerCase ==
    <<"a", "b", "c", "d", "e", "f", "g", "h", "i", "j", "k", "l", "m",
      "n", "o", "p", "q", "r", "s", "t", "u", "v", "w", "x", "y", "z">>

UpperCase ==
    <<"A", "B", "C", "D", "E", "F", "G", "H", "I", "J", "K", "L", "M",
      "N", "O", "P", "Q", "R", "S", "T", "U", "V", "W", "X", "Y", "Z">>

DigitChars == <<"0", "1", "2", "3", "4", "5", "6", "7", "8", "9">>

Range(s) == {s[i] : i \in DOMAIN s}

\* /\s/, /\d/ and /\w/
isSpace(c) == c \in {" ", "\t", "\n", "\r"}
isDigit(c) == c \in Range(DigitChars)
isWord(c) == c \in Range(LowerCase) \cup Range(UpperCase) \cup Range(DigitChars) \cup {"_"}

toLowerCase(c) ==
    IF c \in Range(UpperCase)
    THEN LowerCase[CHOOSE i \in DOMAIN UpperCase : UpperCase[i] = c]
    ELSE c

lower(chars) == [i \in DOMAIN chars |-> toLowerCase(chars[i])]

\* chars.join('')
RECURSIVE join(_)
join(chars) == IF chars = <<>> THEN "" ELSE Head(chars) \o join(Tail(chars))

Read(value, p) == [ok |-> TRUE, value |-> value, pos |-> p]

Bool(b) == [t |-> "boolean", v |-> b]

RECURSIVE skipWhitespace(_, _)
skipWhitespace(input, p) ==
    IF isSpace(currentChar(input, p)) THEN skipWhitespace(input, p + 1) ELSE p

peek(input, p) == IF p + 1 >= Len(input) THEN NoChar ELSE input[p + 2]

\* The position the loop of readIdentifier stops at.
RECURSIVE identifierEnd(_, _)
identifierEnd(input, p) ==
    LET c == currentChar(input, p)
    IN  IF isWord(c) \/ c = "_" \/ c = "." \/ c = "[" \/ c = "]"
        THEN identifierEnd(input, p + 1)
        ELSE p

readIdentifier_noAdvance(input, p) ==
    Read(substring(input, p, identifierEnd(input, p)), p)

readIdentifier(input, p) ==
    Read(substring(input, p, identifierEnd(input, p)), identifierEnd(input, p))

\* The loop of readString, at position p with the characters read so far.
RECURSIVE readStringLoop(_, _, _, _, _, _)
readStringLoop(input, p, quote, start, escaped, chars) ==
    LET c == currentChar(input, p)
    IN  IF c = NoChar
        THEN Raised(TokenizationError("Unterminated string literal", start - 1))
        ELSE IF escaped
        THEN readStringLoop(input, p + 1, quote, start, FALSE,
                Append(chars, CASE c = "n" -> "\n"
                                [] c = "t" -> "\t"
                                [] c = "r" -> "\r"
                                [] OTHER -> c))
        ELSE IF c = "\\" THEN readStringLoop(input, p + 1, quote, start, TRUE, chars)
        ELSE IF c = quote THEN Read(Str(chars), p + 1)
        ELSE readStringLoop(input, p + 1, quote, start, FALSE, Append(chars, c))

readString(input, p) ==
    readStringLoop(input, p + 1, currentChar(input, p), p + 1, FALSE, <<>>)

\* The position the digit loop of readNumber stops at.
RECURSIVE numberEnd(_, _, _)
numberEnd(input, p, hasDecimal) ==
    LET c == currentChar(input, p)
    IN  IF isDigit(c) THEN numberEnd(input, p + 1, hasDecimal)
        ELSE IF c = "." /\ ~hasDecimal THEN numberEnd(input, p + 1, TRUE)
        ELSE p

digit(c) == (CHOOSE i \in DOMAIN DigitChars : DigitChars[i] = c) - 1

RECURSIVE digitsValue(_)
digitsValue(chars) ==
    IF chars = <<>> THEN 0
    ELSE 10 * digitsValue(SubSeq(chars, 1, Len(chars) - 1)) + digit(chars[Len(chars)])

\* parseFloat of an optional sign, digits, and an optional point and
\* digits: the number as [nan, negative, int, frac], frac the digits after
\* the point with trailing zeros dropped.
RECURSIVE dropTrailingZeros(_)
dropTrailingZeros(chars) ==
    IF chars # <<>> /\ chars[Len(chars)] = "0"
    THEN dropTrailingZeros(SubSeq(chars, 1, Len(chars) - 1))
    ELSE chars

parseFloat(numStr) ==
    LET negative == numStr # <<>> /\ Head(numStr) = "-"
        body == IF negative THEN Tail(numStr) ELSE numStr
        point == IF \E i \in DOMAIN body : body[i] = "."
                 THEN CHOOSE i \in DOMAIN body : body[i] = "." /\ \A j \in 1..(i - 1) : body[j] # "."
                 ELSE Len(body) + 1
        int == SubSeq(body, 1, point - 1)
        frac == dropTrailingZeros(SubSeq(body, point + 1, Len(body)))
    IN  [nan |-> int = <<>> /\ frac = <<>>,
         negative |-> negative, int |-> digitsValue(int), frac |-> frac]

\* A number with no fraction is Num(n); one with a fraction keeps it.
Number(f) ==
    IF f.frac = <<>> THEN Num(IF f.negative THEN 0 - f.int ELSE f.int)
    ELSE [t |-> "number", v |-> IF f.negative THEN 0 - f.int ELSE f.int, frac |-> f.frac]

readNumber(input, p) ==
    LET afterSign == IF currentChar(input, p) = "-" THEN p + 1 ELSE p
        end == numberEnd(input, afterSign, FALSE)
        num == parseFloat(substring(input, p, end))
    IN  IF num.nan THEN Raised(TokenizationError("Invalid number", p))
        ELSE Read(Number(num), end)

\* The position is reset before the throw, which ends the tokenizer's use.
readBoolean(input, p) ==
    LET ident == readIdentifier(input, p)
    IN  IF lower(ident.value) = <<"t", "r", "u", "e">> THEN Read(Bool(TRUE), ident.pos)
        ELSE IF lower(ident.value) = <<"f", "a", "l", "s", "e">> THEN Read(Bool(FALSE), ident.pos)
        ELSE Raised(TokenizationError("Expected boolean value", p))

readNull(input, p) ==
    IF /\ lower(substring(input, p, p + 4)) = <<"n", "u", "l", "l">>
       /\ ~isWord(currentChar(input, p + 4))
    THEN Read(Null, p + 4)
    ELSE Raised(TokenizationError("Expected null literal", p))

\* The value an iteration of readArray reads at p.
readArrayValue(input, p) ==
    LET c == currentChar(input, p)
    IN  IF c = "\"" \/ c = "'" THEN readString(input, p)
        ELSE IF isDigit(c) \/ (c = "-" /\ isDigit(peek(input, p))) THEN readNumber(input, p)
        ELSE IF /\ toLowerCase(c) = "t"
                /\ lower(substring(input, p, p + 4)) = <<"t", "r", "u", "e">>
        THEN readBoolean(input, p)
        ELSE IF /\ toLowerCase(c) = "f"
                /\ lower(substring(input, p, p + 5)) = <<"f", "a", "l", "s", "e">>
        THEN readBoolean(input, p)
        ELSE IF /\ toLowerCase(c) = "n"
                /\ lower(substring(input, p, p + 4)) = <<"n", "u", "l", "l">>
        THEN readNull(input, p)
        ELSE Raised(TokenizationError("Unexpected character in array", p))

\* The while loop of readArray, at position p with the items read so far:
\* it ends, and the items are returned, when the input ends at the test of
\* the loop.
RECURSIVE readArrayLoop(_, _, _)
readArrayLoop(input, p, items) ==
    IF currentChar(input, p) = NoChar THEN Read(List(items), p)
    ELSE LET p1 == skipWhitespace(input, p)
         IN  IF currentChar(input, p1) = "]" THEN Read(List(items), p1 + 1)
             ELSE LET value == readArrayValue(input, p1)
                  IN  IF ~value.ok THEN value
                      ELSE LET p2 == skipWhitespace(input, value.pos)
                               c == currentChar(input, p2)
                           IN  IF c = "]" THEN Read(List(Append(items, value.value)), p2 + 1)
                               ELSE IF c = ","
                               THEN readArrayLoop(input, skipWhitespace(input, p2 + 1),
                                                  Append(items, value.value))
                               ELSE Raised(TokenizationError(
                                        "Expected ',' or ']' in array", p2))

readArray(input, p) ==
    LET p1 == skipWhitespace(input, p + 1)
    IN  IF currentChar(input, p1) = "]" THEN Read(List(<<>>), p1 + 1)
        ELSE readArrayLoop(input, p1, <<>>)

\* OPERATOR_MAP in the order of its keys.
OPERATOR_MAP ==
    << [key |-> <<"e", "q">>, op |-> "eq"],
       [key |-> <<"n", "e">>, op |-> "ne"],
       [key |-> <<"g", "t">>, op |-> "gt"],
       [key |-> <<"l", "t">>, op |-> "lt"],
       [key |-> <<"g", "t", "e">>, op |-> "gte"],
       [key |-> <<"l", "t", "e">>, op |-> "lte"],
       [key |-> <<"i", "n">>, op |-> "in"],
       [key |-> <<"n", "o", "t", "i", "n">>, op |-> "notIn"],
       [key |-> <<"c", "o", "n", "t", "a", "i", "n", "s">>, op |-> "contains"],
       [key |-> <<"s", "t", "a", "r", "t", "s", "w", "i", "t", "h">>, op |-> "startsWith"],
       [key |-> <<"e", "n", "d", "s", "w", "i", "t", "h">>, op |-> "endsWith"],
       [key |-> <<"b", "e", "t", "w", "e", "e", "n">>, op |-> "between"] >>

LOGICAL_OPS ==
    << [key |-> <<"a", "n", "d">>, op |-> "and"],
       [key |-> <<"o", "r">>, op |-> "or"],
       [key |-> <<"n", "o", "t">>, op |-> "not"] >>

\* lowerPeek.startsWith(key) && !/\w/.test(lowerPeek[key.length] ?? '')
startsWithWord(input, p, key) ==
    /\ lower(substring(input, p, p + Len(key))) = key
    /\ ~isWord(currentChar(input, p + Len(key)))

\* The first entry of a table whose key the input starts with at p, 0 if none.
firstMatch(table, input, p) ==
    IF \E i \in DOMAIN table : startsWithWord(input, p, table[i].key)
    THEN CHOOSE i \in DOMAIN table :
            /\ startsWithWord(input, p, table[i].key)
            /\ \A j \in 1..(i - 1) : ~startsWithWord(input, p, table[j].key)
    ELSE 0

Token(type, value, position) == [type |-> type, value |-> value, position |-> position]

\* A token with the position after it.
Scanned(token, p) == [ok |-> TRUE, token |-> token, pos |-> p]

\* A VALUE token of what a reader returned, or the reader's error.
valueToken(read, isList, position) ==
    IF ~read.ok THEN read
    ELSE Scanned(Token("VALUE", IF isList THEN read.value ELSE Prim(read.value), position),
               read.pos)

nextToken(input, start) ==
    LET position == skipWhitespace(input, start)
        c == currentChar(input, position)
        operator == firstMatch(OPERATOR_MAP, input, position)
        logicalOp == firstMatch(LOGICAL_OPS, input, position)
    IN  IF c = NoChar THEN Scanned(Token("EOF", "", position), position)
        ELSE IF operator # 0
        THEN Scanned(Token("OPERATOR", OPERATOR_MAP[operator].op, position),
                   position + Len(OPERATOR_MAP[operator].key))
        ELSE IF logicalOp # 0
        THEN Scanned(Token("LOGICAL_OP", LOGICAL_OPS[logicalOp].op, position),
                   position + Len(LOGICAL_OPS[logicalOp].key))
        ELSE IF c = "(" THEN Scanned(Token("PAREN_OPEN", "(", position), position + 1)
        ELSE IF c = ")" THEN Scanned(Token("PAREN_CLOSE", ")", position), position + 1)
        ELSE IF c = "[" THEN valueToken(readArray(input, position), TRUE, position)
        ELSE IF c = "," THEN Scanned(Token("COMMA", ",", position), position + 1)
        ELSE IF c = "\"" \/ c = "'" THEN valueToken(readString(input, position), FALSE, position)
        ELSE IF isDigit(c) \/ (c = "-" /\ isDigit(peek(input, position)))
        THEN valueToken(readNumber(input, position), FALSE, position)
        ELSE IF /\ toLowerCase(c) = "t"
                /\ lower(substring(input, position, position + 4)) = <<"t", "r", "u", "e">>
                /\ ~isWord(currentChar(input, position + 4))
        THEN valueToken(readBoolean(input, position), FALSE, position)
        ELSE IF /\ toLowerCase(c) = "f"
                /\ lower(substring(input, position, position + 5)) = <<"f", "a", "l", "s", "e">>
                /\ ~isWord(currentChar(input, position + 5))
        THEN valueToken(readBoolean(input, position), FALSE, position)
        ELSE IF /\ toLowerCase(c) = "n"
                /\ lower(substring(input, position, position + 4)) = <<"n", "u", "l", "l">>
                /\ ~isWord(currentChar(input, position + 4))
        THEN valueToken(readNull(input, position), FALSE, position)
        ELSE IF isWord(c) \/ c = "_"
        THEN LET ident == readIdentifier(input, position)
             IN  Scanned(Token("IDENTIFIER", join(ident.value), position), ident.pos)
        ELSE Raised(TokenizationError("Unexpected character", position))
(***************************************************************************)
(* SpecTokenize: tokenize() one nextToken call at a time, then parse().     *)
(* The queries are `f in ` followed by                                     *)
(*   - every array literal of up to MaxElements elements over a number, a   *)
(*     negative number, a double- and a single-quoted string, true, false   *)
(*     and null, with or without a blank after each element and after each  *)
(*     comma;                                                              *)
(*   - each of these cut before its `]`, cut after a further comma, and    *)
(*     closed after a further comma.                                       *)
(***************************************************************************)
MaxElements == 2

QueryPrefix == <<"f", " ", "i", "n", " ">>

ArrayElements ==
    { [text |-> <<"1">>, value |-> Num(1)],
      [text |-> <<"-", "2">>, value |-> Num(0 - 2)],
      [text |-> <<"\"", "a", "\"">>, value |-> Str(<<"a">>)],
      [text |-> <<"'", "b", "'">>, value |-> Str(<<"b">>)],
      [text |-> <<"t", "r", "u", "e">>, value |-> Bool(TRUE)],
      [text |-> <<"f", "a", "l", "s", "e">>, value |-> Bool(FALSE)],
      [text |-> <<"n", "u", "l", "l">>, value |-> Null] }

Gaps == {<<>>, <<" ">>}

\* What stands between the brackets of a literal of n elements, with the
\* values it lists.
RECURSIVE ArrayBodies(_)
ArrayBodies(n) ==
    IF n = 0 THEN {[text |-> g, values |-> <<>>] : g \in Gaps}
    ELSE IF n = 1
    THEN {[text |-> e.text \o g, values |-> <<e.value>>] : e \in ArrayElements, g \in Gaps}
    ELSE {[text |-> b.text \o <<",">> \o g1 \o e.text \o g2,
           values |-> Append(b.values, e.value)] :
                b \in ArrayBodies(n - 1), e \in ArrayElements, g1 \in Gaps, g2 \in Gaps}

ArrayLiterals ==
    {[text |-> <<"[">> \o b.text \o <<"]">>, values |-> b.values] :
        b \in UNION {ArrayBodies(n) : n \in 0..MaxElements}}

ArrayQueries == {QueryPrefix \o a.text : a \in ArrayLiterals}

\* Array literals outside the grammar: the input ends before `]`, or a
\* comma stands before `]`.
UnclosedArrayQueries ==
    LET bodies == UNION {ArrayBodies(n) : n \in 0..MaxElements}
        elements == UNION {ArrayBodies(n) : n \in 1..MaxElements}
    IN  {QueryPrefix \o <<"[">> \o b.text : b \in bodies}
            \cup {QueryPrefix \o <<"[">> \o b.text \o <<",">> \o g : b \in elements, g \in Gaps}

TrailingCommaQueries ==
    {QueryPrefix \o <<"[">> \o b.text \o <<",">> \o g \o <<"]">> :
        b \in UNION {ArrayBodies(n) : n \in 1..MaxElements}, g \in Gaps}

TokenizeQueries == ArrayQueries \cup UnclosedArrayQueries \cup TrailingCommaQueries

InitTokenize ==
    /\ query \in TokenizeQueries
    /\ charPosition = 0
    /\ tokens = NoTokens
    /\ ast = NoAst
    /\ whitelist = WhitelistOptions(Absent, Absent)
    /\ pc = "tokenize"
    /\ result = NoError
    /\ filter = NoFilter
    /\ options = NoOptions
    /\ calls = NoCalls
    /\ operators = NoOperators
    /\ finalized = NoFilter

\* One iteration of tokenize(): a call of nextToken.  A throw ends
\* tokenize() with no token list; the EOF token ends it with the list.
NextToken ==
    /\ pc = "tokenize"
    /\ LET next == nextToken(query, charPosition)
       IN  IF ~next.ok
           THEN /\ pc' = "raised"
                /\ result' = next.error
                /\ tokens' = NoTokens
                /\ charPosition' = charPosition
           ELSE /\ pc' = (IF next.token.type = "EOF" THEN "tokenized" ELSE "tokenize")
                /\ result' = result
                /\ tokens' = Append(tokens, next.token)
                /\ charPosition' = next.pos
    /\ UNCHANGED <<ast, whitelist, filter, options, calls, operators, finalized, query>>

NextTokenize ==
    \/ NextToken
    \/ Parse

SpecTokenize == InitTokenize /\ [][NextTokenize]_vars

\* C22: an array literal whose elements are string, number, boolean or null
\* literals tokenizes to one value token holding the list of the
\* corresponding values in order, whether or not whitespace separates an
\* element from the following `,` or `]`: tokenizing `f in ` and the literal
\* does not raise, and gives the identifier, the operator, the value token
\* of the list and the end of input.
C22_ArrayLiteralTokenizes ==
    \A a \in ArrayLiterals :
        query = QueryPrefix \o a.text =>
            /\ pc # "raised"
            /\ pc \in {"tokenized", "parsed"} =>
                    tokens = << Token("IDENTIFIER", "f", 0),
                                Token("OPERATOR", "in", 2),
                                Token("VALUE", List(a.values), 5),
                                Token("EOF", "", Len(query)) >>

\* C23: an array literal is accepted only in the grammar's form: for input
\* that ends before the closing `]` or that has a comma before `]`, no token
\* holding a list is produced and the query does not reach an AST.
C23_MalformedArrayRejected ==
    query \in UnclosedArrayQueries \cup TrailingCommaQueries =>
        /\ \A i \in 1..Len(tokens) :
                tokens[i].type = "VALUE" => ~tokens[i].value.isArray
        /\ ~(pc = "parsed" /\ result = NoError)

(***************************************************************************)
(* Field and operator extraction (parser/validator.ts, extractFields and   *)
(* extractOperators).  The recursive walk pushes onto one array; the array *)
(* is then passed through `new Set` and spread, which keeps the first      *)
(* occurrence of each element in insertion order.                          *)
(***************************************************************************)
push(array, x) == Append(array, x)

\* [...new Set(array)]
RECURSIVE unique(_)
unique(array) ==
    IF array = <<>> THEN <<>>
    ELSE LET front == unique(SubSeq(array, 1, Len(array) - 1))
             last == array[Len(array)]
         IN  IF \E i \in 1..Len(front) : front[i] = last THEN front
             ELSE push(front, last)

\* The walk of the copy that knows no NOT node (src/src/parser/validator.ts).
RECURSIVE extractFieldsRecursive_noNotBranch(_, _)
extractFieldsRecursive_noNotBranch(node, fields) ==
    IF isComparisonNode(node) THEN push(fields, node.field)
    ELSE IF isLogicalNode(node) THEN
        extractFieldsRecursive_noNotBranch(node.right,
            extractFieldsRecursive_noNotBranch(node.left, fields))
    ELSE fields

RECURSIVE extractFieldsRecursive(_, _)
extractFieldsRecursive(node, fields) ==
    IF isComparisonNode(node) THEN push(fields, node.field)
    ELSE IF isLogicalNode(node) THEN
        extractFieldsRecursive(node.right, extractFieldsRecursive(node.left, fields))
    ELSE IF isNotNode(node) THEN extractFieldsRecursive(node.child, fields)
    ELSE fields

extractFields(a) == unique(extractFieldsRecursive(a, <<>>))

RECURSIVE extractOperatorsRecursive(_, _)
extractOperatorsRecursive(node, ops) ==
    IF isComparisonNode(node) THEN push(ops, node.op)
    ELSE IF isLogicalNode(node) THEN
        extractOperatorsRecursive(node.right, extractOperatorsRecursive(node.left, ops))
    ELSE IF isNotNode(node) THEN extractOperatorsRecursive(node.child, ops)
    ELSE ops

extractOperators(a) == unique(extractOperatorsRecursive(a, <<>>))

(***************************************************************************)
(* Specification of extraction: one AST of up to MaxExtractNodes nodes     *)
(* over two fields and two operators, with NOT nodes, handed to            *)
(* extractFields or to extractOperators.                                   *)
(***************************************************************************)
MaxExtractNodes == 6

ExtractAsts == TreesUpTo(ValidateLeaves, MaxExtractNodes, TRUE)

InitExtract ==
    /\ tokens = <<>>
    /\ ast \in ExtractAsts
    /\ whitelist = WhitelistOptions(Absent, Absent)
    /\ pc = "built"
    /\ result = NoError
    /\ filter = NoFilter
    /\ options = NoOptions
    /\ calls = NoCalls
    /\ operators = NoOperators
    /\ finalized = NoFilter
    /\ query = NoQuery
    /\ charPosition = 0

ExtractFields ==
    /\ pc = "built"
    /\ result' = extractFields(ast)
    /\ pc' = "fields"
    /\ UNCHANGED <<tokens, ast, whitelist, filter, options, calls, operators, finalized, query, charPosition>>

ExtractOperators ==
    /\ pc = "built"
    /\ result' = extractOperators(ast)
    /\ pc' = "operators"
    /\ UNCHANGED <<tokens, ast, whitelist, filter, options, calls, operators, finalized, query, charPosition>>

NextExtract == ExtractFields \/ ExtractOperators

SpecExtract == InitExtract /\ [][NextExtract]_vars

\* The fields (operators) of the comparisons of a tree, left to right.
FieldsOf(node) == [i \in 1..Len(LeavesOf(node)) |-> LeavesOf(node)[i].field]
OperatorsOf(node) == [i \in 1..Len(LeavesOf(node)) |-> LeavesOf(node)[i].op]

FirstIndex(walk, x) == CHOOSE i \in 1..Len(walk) : walk[i] = x /\ \A j \in 1..(i - 1) : walk[j] # x

\* list is the duplicate-free list of the elements of walk, in order of first
\* occurrence.
FirstOccurrences(list, walk) ==
    /\ {list[i] : i \in 1..Len(list)} = {walk[i] : i \in 1..Len(walk)}
    /\ \A i, j \in 1..Len(list) :
        i < j => /\ list[i] # list[j]
                 /\ FirstIndex(walk, list[i]) < FirstIndex(walk, list[j])

\* The trees that differ from node by moving one pair of parentheses in a
\* chain of one connective, at any depth.
RECURSIVE Reparenthesised(_)
Reparenthesised(node) ==
    IF isLogicalNode(node) THEN
        (IF node.left.type = node.type
            THEN {LogicalNode(node.type, node.left.left,
                              LogicalNode(node.type, node.left.right, node.right))}
            ELSE {})
        \cup (IF node.right.type = node.type
            THEN {LogicalNode(node.type,
                              LogicalNode(node.type, node.left, node.right.left),
                              node.right.right)}
            ELSE {})
        \cup {LogicalNode(node.type, l, node.right) : l \in Reparenthesised(node.left)}
        \cup {LogicalNode(node.type, node.left, r) : r \in Reparenthesised(node.right)}
    ELSE IF isNotNode(node) THEN {NotNode(c) : c \in Reparenthesised(node.child)}
    ELSE {}

Opens(tok) == tok.type = "PAREN_OPEN" \/ (tok.type = "LOGICAL_OP" /\ tok.value = "not")

RECURSIVE LeadingNesting(_)
LeadingNesting(toks) ==
    IF toks = <<>> \/ ~Opens(Head(toks)) THEN 0
    ELSE 1 + LeadingNesting(Tail(toks))

\* The deepest nesting the streams of Spec hold ahead of a comparison.
DeepestNesting == MaxLexemes - 1

\* C25: the parser has a nesting ceiling: a stream nested deeper than the
\* ceiling is rejected.  Any ceiling below DeepestNesting rejects the streams
\* that open with DeepestNesting `(` or `not` tokens.
C25_NestingCeiling ==
    (pc = "parsed" /\ LeadingNesting(tokens) >= DeepestNesting) => result # NoError

\* C26: every ParseError raised for a syntax error in a stream that holds at
\* least one token ahead of EOF carries the position of the offending token,
\* never a placeholder such as -1.
C26_ErrorCarriesPosition ==
    (pc = "parsed" /\ Len(tokens) > 1 /\ result # NoError) =>
        \E i \in 1..Len(tokens) : result.position = tokens[i].position

(***************************************************************************)
(* SpecValidateOrder: validateQuery applied to trees of at most            *)
(* MaxOrderNodes nodes whose comparisons can break several rules at once   *)
(* (a field and an operator outside the whitelists, in with a scalar, a    *)
(* value of the wrong type), under whitelists with and without a field     *)
(* type schema.  The supplied lists are non-empty.                         *)
(***************************************************************************)
MaxOrderNodes == 3

OrderValues ==
    [gt |-> {Prim(Num(1)), Prim(Str(<<"a">>)), Prim(Null), List(<<Num(1)>>)},
     in |-> {Prim(Num(1)), List(<<Num(1)>>), List(<<Str(<<"a">>)>>)},
     contains |-> {Prim(Str(<<"a">>)), Prim(Num(1))}]

OrderLeaves ==
    UNION {{ComparisonNode(f, o, v) : f \in ValidateFields, v \in OrderValues[o]} :
            o \in DOMAIN OrderValues}

OrderAsts == TreesUpTo(OrderLeaves, MaxOrderNodes, TRUE)

OrderDefinitions ==
    {FieldTypeDefinition("number", FALSE, FALSE, {}, NoValidator),
     FieldTypeDefinition("number", FALSE, FALSE, {}, Validator_(FALSE)),
     FieldTypeDefinition("string", FALSE, FALSE, {}, Validator_(TRUE)),
     FieldTypeDefinition("number", TRUE, TRUE, {}, NoValidator),
     FieldTypeDefinition("enum", FALSE, TRUE, {Num(1)}, NoValidator)}

OrderFieldTypes ==
    {NoFieldTypes}
    \cup {FieldTypeMap("age" :> d) : d \in OrderDefinitions}
    \cup {FieldTypeMap(("age" :> d) @@ ("name" :> d)) : d \in OrderDefinitions}

OrderWhitelists ==
    {TypedWhitelistOptions(F, O, T) :
        F \in {Absent, Given({"name"})},
        O \in {Absent, Given({"gt"}), Given({"in", "contains"})},
        T \in OrderFieldTypes}

InitValidateOrder ==
    /\ tokens = <<>>
    /\ ast \in OrderAsts
    /\ whitelist \in OrderWhitelists
    /\ pc = "built"
    /\ result = NoError
    /\ filter = NoFilter
    /\ options = NoOptions
    /\ calls = NoCalls
    /\ operators = NoOperators
    /\ finalized = NoFilter
    /\ query = NoQuery
    /\ charPosition = 0

NextValidateOrder == Validate

SpecValidateOrder == InitValidateOrder /\ [][NextValidateOrder]_vars

\* The rules a comparison can break, in the order the claim gives them.
FieldOutside(c, wl) == wl.allowedFields.given /\ c.field \notin wl.allowedFields.list
OperatorOutside(c, wl) == wl.allowedOperators.given /\ c.op \notin wl.allowedOperators.list
Misshapen(c) ==
    \/ c.op \in {"in", "notIn"} /\ ~c.value.isArray
    \/ c.op = "between" /\ (~c.value.isArray \/ Len(c.value.items) # 2)
Typed(c, wl) == wl.fieldTypes.given /\ c.field \in DOMAIN wl.fieldTypes.map
PredicateRejects(c, wl) ==
    /\ Typed(c, wl)
    /\ wl.fieldTypes.map[c.field].validator.given
    /\ ~wl.fieldTypes.map[c.field].validator.returns
\* The type checks alone: the schema entry with its predicate taken out.
TypeChecks(c, wl) ==
    validateFieldType(c, [wl.fieldTypes.map[c.field] EXCEPT !.validator = NoValidator])
TypeMismatch(c, wl) == Typed(c, wl) /\ TypeChecks(c, wl) # NoError

FirstBroken(c, wl) ==
    IF FieldOutside(c, wl) THEN "field"
    ELSE IF OperatorOutside(c, wl) THEN "operator"
    ELSE IF Misshapen(c) THEN "shape"
    ELSE IF PredicateRejects(c, wl) THEN "predicate"
    ELSE IF TypeMismatch(c, wl) THEN "type"
    ELSE "none"

\* The error that describes one broken rule of one comparison and nothing else.
Describes(e, rule, c, wl) ==
    /\ e.name = "ValidationError"
    /\ e.field = c.field
    /\ CASE rule = "field" ->
                /\ e.operator = "undefined"
                /\ e.message = "Field '" \o c.field \o "' is not allowed"
         [] rule = "operator" ->
                /\ e.operator = c.op
                /\ e.message = "Operator '" \o c.op \o "' is not allowed"
         [] rule = "shape" ->
                /\ e.operator = c.op
                /\ e.message \in {"Operator '" \o c.op \o "' requires an array value",
                                  "Operator 'between' requires exactly two values"}
         [] rule = "predicate" ->
                /\ e.operator = "undefined"
                /\ e.message = "Field '" \o c.field \o "' failed custom validation"
         [] rule = "type" -> e = TypeChecks(c, wl)

\* The position, in the left-to-right walk, of the first comparison that
\* breaks a rule; 0 when none does.
FirstViolating(walk, wl) ==
    IF \E i \in 1..Len(walk) : FirstBroken(walk[i], wl) # "none"
    THEN CHOOSE i \in 1..Len(walk) :
            /\ FirstBroken(walk[i], wl) # "none"
            /\ \A j \in 1..(i - 1) : FirstBroken(walk[j], wl) = "none"
    ELSE 0

\* C27: validate is fail-fast in a fixed order.  It raises for the first
\* comparison of the left-to-right walk that breaks a rule and, within that
\* comparison, for the first broken rule in the order field whitelist,
\* operator whitelist, operator/value shape, custom predicate, type checks;
\* the error describes that rule only, so a comparison outside both
\* whitelists is reported as a field violation with no operator; and it
\* returns normally when no comparison breaks a rule.
C27_FailFastOrder ==
    pc = "validated" =>
        LET walk == LeavesOf(ast)
            i == FirstViolating(walk, whitelist)
        IN  IF i = 0 THEN result = NoError
            ELSE Describes(result, FirstBroken(walk[i], whitelist), walk[i], whitelist)

\* A comparison that passes its schema entry on the left, and on the right
\* one that is outside both whitelists, pairs `in` with a scalar and fails
\* the type checks of its schema entry: the field violation alone is reported.
C27_Witness ==
    /\ pc = "validated"
    /\ isLogicalNode(ast)
    /\ isComparisonNode(ast.left)
    /\ FirstBroken(ast.left, whitelist) = "none"
    /\ Typed(ast.left, whitelist)
    /\ isComparisonNode(ast.right)
    /\ FieldOutside(ast.right, whitelist)
    /\ OperatorOutside(ast.right, whitelist)
    /\ Misshapen(ast.right)
    /\ TypeMismatch(ast.right, whitelist)
    /\ result.name = "ValidationError"
    /\ result.field = ast.right.field
    /\ result.operator = "undefined"

(***************************************************************************)
(* What a TypeORM condition object selects.  The object is read as the     *)
(* conjunction of its field conditions; a field value is a raw value       *)
(* (equality), an operator envelope before finalizing, or the application  *)
(* of a table function after it.  The rows give each field a number, so    *)
(* the reading covers the operators on numbers.                            *)
(***************************************************************************)
NumericOperators == {"eq", "ne", "gt", "gte", "lt", "lte", "in", "notIn", "between"}

Within(x, items) == \E i \in 1..Len(items) : items[i].v = x

EnvelopeHolds(value, x) ==
    IF Has(value, "isArray") THEN x = value.items[1].v
    ELSE LET op == value["__qast_operator__"]
             operand == value["value"]
         IN  CASE op = "in" -> Within(x, operand.items)
               [] op = "notIn" -> ~Within(x, operand.items)
               [] op = "between" -> operand.items[1].v <= x /\ x <= operand.items[2].v
               [] OTHER -> Compare(op, x, operand.items[1].v)

RECURSIVE AppliedHolds(_, _)
AppliedHolds(value, x) ==
    IF Has(value, "isArray") THEN x = value.items[1].v
    ELSE LET args == value.args
         IN  CASE value.call = "Not" -> ~AppliedHolds(args[1], x)
               [] value.call = "Equal" -> x = args[1].items[1].v
               [] value.call = "MoreThan" -> x > args[1].items[1].v
               [] value.call = "MoreThanOrEqual" -> x >= args[1].items[1].v
               [] value.call = "LessThan" -> x < args[1].items[1].v
               [] value.call = "LessThanOrEqual" -> x <= args[1].items[1].v
               [] value.call = "In" -> Within(x, args[1].items)
               [] value.call = "Between" ->
                    args[1].items[1].v <= x /\ x <= args[2].items[1].v

\* The conjunction of the field conditions of an object.
ConditionsHold(object, row) == \A k \in DOMAIN object : EnvelopeHolds(object[k], row[k])
FinalizedHold(object, row) == \A k \in DOMAIN object : AppliedHolds(object[k], row[k])

NumericCondition(object) ==
    \A k \in DOMAIN object :
        Has(object[k], "isArray") \/ object[k]["__qast_operator__"] \in NumericOperators

\* The filter is a NOT envelope around one condition object of two or more
\* fields, each an operator on numbers.
NotOverConjunction(f) ==
    /\ ~f["where"].isArray
    /\ DOMAIN f["where"].items[1] = {"__qast_not__"}
    /\ LET target == f["where"].items[1]["__qast_not__"]
       IN  /\ ~target.isArray
           /\ ~Has(target.items[1], "__qast_not__")
           /\ Cardinality(DOMAIN target.items[1]) >= 2
           /\ NumericCondition(target.items[1])

\* C28: finalizeTypeOrmFilter preserves the meaning of NOT over a
\* conjunction: the finalized filter of a NOT envelope around a condition
\* object of two or more fields holds of exactly the rows of which the
\* conjunction of the wrapped conditions does not hold.
C28_NotOverConjunction ==
    (pc = "finalizeTypeOrmFilter" /\ result = NoError /\ NotOverConjunction(filter)) =>
        \A row \in Rows :
            FinalizedHold(finalized["where"].items[1], row)
                <=> ~ConditionsHold(filter["where"].items[1]["__qast_not__"].items[1], row)

(***************************************************************************)
(* SpecForge: the Sequelize and TypeORM compilers and finalizers applied   *)
(* to queries whose field is named like an envelope marker.  The           *)
(* tokenizer reads each of these names as one identifier (readIdentifier   *)
(* takes letters, digits and `_`).  The comparisons are equalities, whose  *)
(* compiled form is { [field]: value }; they stand alone, beside an        *)
(* ordinary comparison under AND or OR, or under NOT.                      *)
(***************************************************************************)
MarkerNames == {"__qast_logical__", "__qast_not__", "__qast_operator__", "conditions"}

ForgedValues ==
    {Prim(Num(1)), Prim(Num(0)), MarkerString("and"), MarkerString("not")}

ForgedLeaves == {ComparisonNode(m, "eq", v) : m \in MarkerNames, v \in ForgedValues}

ForgeAsts ==
    LET ordinary == ComparisonNode("f", "gt", Prim(Num(1)))
    IN  ForgedLeaves
            \cup {NotNode(c) : c \in ForgedLeaves}
            \cup {LogicalNode(k, ordinary, c) : k \in {"AND", "OR"}, c \in ForgedLeaves}
            \cup {LogicalNode(k, c, ordinary) : k \in {"AND", "OR"}, c \in ForgedLeaves}

ForgeTables == {NoOperators, OperatorTable(SequelizeKeys), OperatorTable(TypeOrmNames)}

InitForge ==
    /\ tokens = <<>>
    /\ ast \in ForgeAsts
    /\ whitelist = WhitelistOptions(Absent, Absent)
    /\ pc = "built"
    /\ result = NoError
    /\ filter = NoFilter
    /\ options = NoOptions
    /\ calls = NoCalls
    /\ operators \in ForgeTables
    /\ finalized = NoFilter
    /\ query = NoQuery
    /\ charPosition = 0

NextForge ==
    \/ ToSequelizeFilter
    \/ ToTypeORMFilter
    \/ FinalizeSequelizeFilter
    \/ FinalizeTypeOrmFilter

SpecForge == InitForge /\ [][NextForge]_vars

Forged(node) == isComparisonNode(node) /\ node.field \in MarkerNames

\* The ordinary field condition of an equality: { [field]: value }.
FieldCondition(c) == Object(c.field, c.value)

\* C29: envelope markers cannot be forged through field names.  An equality
\* on a field named like a marker is compiled by toSequelizeFilter to its
\* field condition; beside another comparison under AND or OR it becomes
\* one element of a group of two; and finalizeSequelizeFilter and
\* finalizeTypeOrmFilter, given a full table, return its field condition.
C29_MarkersNotForged ==
    /\ (pc = "sequelize" /\ Forged(ast)) =>
            (result = NoError /\ filter = FieldCondition(ast))
    /\ (pc = "sequelize" /\ isLogicalNode(ast)) =>
            /\ result = NoError
            /\ filter = Logical(IF ast.type = "AND" THEN "and" ELSE "or",
                                <<sequelize_transformComparisonNode(ast.left).value,
                                  sequelize_transformComparisonNode(ast.right).value>>)
    /\ (pc = "finalizeSequelizeFilter" /\ Forged(ast)
            /\ operators = OperatorTable(SequelizeKeys)) =>
            (result = NoError /\ finalized = FieldCondition(ast))
    /\ (pc = "finalizeTypeOrmFilter" /\ Forged(ast)
            /\ operators = OperatorTable(TypeOrmNames)) =>
            (result = NoError /\ finalized = Object("where", Prim(FieldCondition(ast))))

(***************************************************************************)
(* SpecTerminate: tokenize() then parse() run to their end.  The queries   *)
(* are every character sequence of at most MaxChars characters over an     *)
(* alphabet that reaches each reader of the tokenizer (identifier, number, *)
(* string with escapes, array, whitespace) and sample array queries; the   *)
(* parser is also handed every list of at most MaxParserTokens tokens of   *)
(* the kinds of Spec, in any order.  tokenize() and parse(), once called,  *)
(* are straight-line synchronous code: a step that can be taken is taken.  *)
(***************************************************************************)
MaxChars == 3

MaxParserTokens == 4

TerminateAlphabet == {"a", "1", " ", "[", "]", ",", "\"", "\\"}

CharQueries == UNION {[1..n -> TerminateAlphabet] : n \in 0..MaxChars}

\* `f in ` and an array literal of up to two elements (two only without
\* whitespace): closed, cut short before `]`, or with a comma before `]`.
SampleQueries ==
    LET bodies == ArrayBodies(0) \cup ArrayBodies(1)
                    \cup {b \in ArrayBodies(2) : \A i \in 1..Len(b.text) : b.text[i] # " "}
    IN  {QueryPrefix \o <<"[">> \o b.text \o end :
            b \in bodies, end \in {<<"]">>, <<>>, <<",">>, <<",", "]">>}}

InitTerminate ==
    /\ query = NoQuery
    /\ charPosition = 0
    /\ tokens = NoTokens
    /\ ast = NoAst
    /\ whitelist = WhitelistOptions(Absent, Absent)
    /\ pc = "idle"
    /\ result = NoError
    /\ filter = NoFilter
    /\ options = NoOptions
    /\ calls = NoCalls
    /\ operators = NoOperators
    /\ finalized = NoFilter

\* new Tokenizer(input): parseQueryString is called with a query.
NewTokenizer ==
    /\ pc = "idle"
    /\ \E q \in CharQueries \cup SampleQueries : query' = q
    /\ pc' = "tokenize"
    /\ UNCHANGED <<tokens, ast, whitelist, result, filter, options, calls, operators, finalized, charPosition>>

\* new Parser(tokens): the parser is handed a token list.
NewParser ==
    /\ pc = "idle"
    /\ \E q \in UNION {[1..n -> RawKinds] : n \in 0..MaxParserTokens} :
            tokens' = TokenStream(q)
    /\ pc' = "tokenized"
    /\ UNCHANGED <<ast, whitelist, result, filter, options, calls, operators, finalized, query, charPosition>>

NextTerminate ==
    \/ NewTokenizer
    \/ NewParser
    \/ NextToken
    \/ Parse

\* Weak fairness of Parse and of NextToken: a call that has been started
\* is carried on.  Parse can be taken exactly when pc = "tokenized" and
\* NextToken exactly when pc = "tokenize" (each is defined for every
\* outcome of the function it calls and always changes pc or tokens), so
\* WF_vars(Parse) and WF_vars(NextToken) are written out with these
\* enabling conditions.
SpecTerminate ==
    /\ InitTerminate
    /\ [][NextTerminate]_vars
    /\ ([]<>(pc # "tokenized") \/ []<><<Parse>>_vars)
    /\ ([]<>(pc # "tokenize") \/ []<><<NextToken>>_vars)

\* A call of nextToken at any position of the query that returns a token
\* has consumed at least one character, unless the token is EOF, and has
\* not run past the end; so have the readers of an array element, of a
\* string at a quote and of an array at `[`.
TokenizerProgress ==
    (pc = "tokenize" /\ charPosition = 0) =>
    \A p \in 0..Len(query) :
        /\ LET next == nextToken(query, p)
           IN  next.ok => /\ next.pos > p \/ next.token.type = "EOF"
                          /\ next.pos <= Len(query)
        /\ \A read \in {readArrayValue(query, p)}
                    \cup (IF currentChar(query, p) \in {"\"", "'"}
                          THEN {readString(query, p)} ELSE {})
                    \cup (IF currentChar(query, p) = "[" THEN {readArray(query, p)} ELSE {}) :
                read.ok => (read.pos > p /\ read.pos <= Len(query))

\* Every parsing function that returns a node from any position of the
\* token list has consumed at least one token and has not passed EOF.
ParserProgress ==
    pc = "tokenized" =>
        \A p \in 1..Len(tokens) :
            \A parsed \in {parseFactor(tokens, p), parseTerm(tokens, p),
                           parseNotExpression(tokens, p), parseAndExpression(tokens, p),
                           parseOrExpression(tokens, p)} :
                parsed.ok => (parsed.pos > p /\ parsed.pos <= Len(tokens))

\* The tokens read so far are no more than the characters consumed, plus the
\* EOF token.
StepsBounded ==
    /\ charPosition <= Len(query)
    /\ (pc = "tokenize" => Len(tokens) <= charPosition)
    /\ (pc \in {"tokenized", "parsed"} /\ query # NoQuery => Len(tokens) <= Len(query) + 1)

Ended ==
    \/ pc = "raised" /\ result # NoError
    \/ pc = "parsed" /\ (result # NoError \/ ast # NoAst)

\* C30: tokenizing and parsing terminate on every finite query.  Every
\* tokenizer step consumes at least one character, returns end-of-input or
\* raises; every parser step consumes at least one token or raises; the
\* number of tokens is bounded by the length of the query; and tokenize
\* followed by parse ends with an AST or an error.
C30_Terminates ==
    /\ [](TokenizerProgress /\ ParserProgress /\ StepsBounded)
    /\ [][(pc = "tokenize" =>
                (charPosition' > charPosition \/ pc' \in {"tokenized", "raised"}))
          /\ (pc = "tokenized" => pc' = "parsed")]_vars
    /\ (pc \in {"tokenize", "tokenized"} ~> Ended)

\* A query with a string and an array of two elements has been tokenized
\* to the end of its text and parsed.
C30_Witness ==
    /\ pc = "parsed"
    /\ result = NoError
    /\ query # NoQuery
    /\ charPosition = Len(query)
    /\ Len(tokens) = 4
    /\ tokens[3].value.isArray
    /\ Len(tokens[3].value.items) = 2
    /\ tokens[3].value.items[1].t = "string"

====
